---- MODULE Spec2Model ----
(***************************************************************************)
(* Model of the correlation and retry core of calendly-attio-sync:         *)
(*   - pollForTranscript, the bounded exponential-backoff polling loop     *)
(*     (src/src/services/openai.js, second module of the file);            *)
(*   - the in-memory booking store addBooking / findMatch / cleanup        *)
(*     (src/src/index.js, second module of the file).                      *)
(* Strings that the code only measures are modelled by their length;       *)
(* strings that the code compares or converts are sequences of characters. *)
(***************************************************************************)
EXTENDS Integers, Sequences, FiniteSets, TLC

VARIABLES
    \* ---- pollForTranscript (one call) ----
    cfg,          \* the config object passed to the call (config.retry)
    pollPc,       \* "idle" | "fetching" (awaiting axios.get) | "sleeping" | "done" | "threw"
    attempt,      \* the loop variable
    fetches,      \* number of axios.get calls issued so far
    waits,        \* the delays passed to sleep(), in order
    outcomes,     \* the class of each completed fetch, in order
    lastFetched,  \* the transcript value selected from the last response
    pollResult,   \* the value returned
    \* ---- booking store ----
    bookings,     \* the Map, as the sequence of its values in iteration order
    now,          \* Date.now()
    ticks,        \* number of clock advances so far
    lastCall,     \* the last store call: its name, argument and return value
    \* ---- pending-lead store ----
    pendingLeads, \* the Map, as the sequence of its entries [key, lead] in iteration order
    leadCall,     \* the last call of the pending-lead store
    \* ---- HeyReach and Clay webhook handlers, Attio ----
    tasks,        \* the handler calls started so far, each with its position and locals
    attioPersons, \* the profile URLs that have a person record in Attio
    attioNotes,   \* the notes created in Attio, in order
    attioFields,  \* the person records whose email or phone Clay has patched
    \* ---- Calendly and Fathom routes and orchestrators, Attio people, Slack ----
    runs,         \* the deliveries received so far, each with its position and locals
    attioPeople,  \* the person records of Attio, by the email each was created with
    attioMeetingNotes, \* the call-summary notes created in Attio, in order
    slackPosts,   \* the error notifications posted to Slack, in order
    \* ---- updatePersonFields ----
    updates       \* the calls of updatePersonFields, each with its position and locals

pollVars == <<cfg, pollPc, attempt, fetches, waits, outcomes, lastFetched, pollResult>>
storeVars == <<bookings, now, ticks, lastCall>>
leadVars == <<pendingLeads, leadCall>>
flowVars == <<tasks, attioPersons, attioNotes, attioFields>>
orchVars == <<runs, attioPeople, attioMeetingNotes, slackPosts>>
updateVars == <<updates>>
vars == <<cfg, pollPc, attempt, fetches, waits, outcomes, lastFetched, pollResult,
          bookings, now, ticks, lastCall, pendingLeads, leadCall,
          tasks, attioPersons, attioNotes, attioFields,
          runs, attioPeople, attioMeetingNotes, slackPosts, updates>>

(***************************************************************************)
(* Configuration: getConfig().retry                                        *)
(***************************************************************************)
DefaultMaxAttempts == 5
DefaultBaseDelayMs == 30000
MaxDelayMs == 900000

\* Largest maxAttempts the model passes to pollForTranscript.
MaxAttemptsBound == 5

BaseDelayChoices == {DefaultBaseDelayMs, MaxDelayMs \div 2, MaxDelayMs + 1}

getConfig(maxAttempts, baseDelayMs) ==
    [maxAttempts |-> maxAttempts, baseDelayMs |-> baseDelayMs, maxDelayMs |-> MaxDelayMs]

Configs == {getConfig(m, b) : m \in 1..MaxAttemptsBound, b \in BaseDelayChoices}

(***************************************************************************)
(* The response of GET /scheduled_events/<uuid>.                           *)
(* A field value is Absent (undefined/null) or a string, given by its      *)
(* length.  The fields are read in the order of TranscriptFields.          *)
(***************************************************************************)
Absent == -1
MinTranscriptLength == 50

FieldValues == {Absent, 0, MinTranscriptLength, MinTranscriptLength + 1}

TranscriptFields ==
    <<"meeting_notes.transcript", "meeting_notes.transcription", "meeting_notes.summary",
      "transcript", "transcription">>

FieldNames == {TranscriptFields[i] : i \in DOMAIN TranscriptFields}

\* Largest number of transcript fields a modelled response carries.
MaxFieldsSet == 2

Resources ==
    {r \in [FieldNames -> FieldValues] :
        Cardinality({f \in FieldNames : r[f] # Absent}) <= MaxFieldsSet}

\* JavaScript truthiness of a field value: undefined, null and "" are falsy.
Truthy(v) == v # Absent /\ v > 0

Null == [field |-> "null", len |-> Absent]

\* a || b || c || d || e : the first truthy operand, else the last operand.
RECURSIVE OrChain(_, _)
OrChain(resource, i) ==
    LET f == TranscriptFields[i]
    IN  IF i = Len(TranscriptFields) \/ Truthy(resource[f])
        THEN [field |-> f, len |-> resource[f]]
        ELSE OrChain(resource, i + 1)

SelectTranscript(resource) == OrChain(resource, 1)

IsValidTranscriptMutant(t) == Truthy(t.len) /\ t.len >= MinTranscriptLength

\* if (transcript && transcript.length > 50)
IsValidTranscript(t) == Truthy(t.len) /\ t.len > MinTranscriptLength

\* What an awaited axios.get can produce: a response with a resource, a response
\* whose body is missing (reading a property of it throws a TypeError inside the
\* try block), a 404, another HTTP status, or a network fault.
ErrorKinds == {"http404", "httpError", "networkFault", "malformedBody"}

FetchOutcomes ==
    {[kind |-> "response", resource |-> r] : r \in Resources}
        \cup {[kind |-> k, resource |-> [f \in FieldNames |-> Absent]] : k \in ErrorKinds}

\* The class of a completed fetch, as the loop body distinguishes it: the catch
\* block tells a 404 (error.response.status === 404) from every other error.
OutcomeClass(o) ==
    IF o.kind = "http404" THEN "notFound"
    ELSE IF o.kind # "response" THEN "error"
    ELSE IF IsValidTranscript(SelectTranscript(o.resource)) THEN "accepted"
    ELSE "notReady"

RECURSIVE Pow2(_)
Pow2(n) == IF n = 0 THEN 1 ELSE 2 * Pow2(n - 1)

\* const delayMs = baseDelayMs * Math.pow(2, attempt - 1);
BackoffDelay(baseDelayMs, a) == baseDelayMs * Pow2(a - 1)

ShouldSleepMutant(a, maxAttempts) == a <= maxAttempts

\* if (attempt < maxAttempts)
ShouldSleep(a, maxAttempts) == a < maxAttempts

(***************************************************************************)
(* pollForTranscript                                                       *)
(***************************************************************************)
OnErrorMutant(kind) == IF kind = "http404" THEN "retry" ELSE "throw"

\* catch (error) { ...log... } : every error is logged and the loop goes on.
OnError(kind) == "retry"

AfterFetchMutant(o, a, maxAttempts) ==
    IF o.kind # "response" /\ OnError(o.kind) = "throw" THEN "throw"
    ELSE IF ShouldSleep(a, maxAttempts) THEN "sleep"
    ELSE "next"

\* Where the loop body goes once the awaited axios.get has settled with outcome o:
\* "return" the transcript, "sleep" before the next attempt, go to the "next"
\* iteration without sleeping, or "throw" out of the function.
AfterFetch(o, a, maxAttempts) ==
    IF o.kind # "response" /\ OnError(o.kind) = "throw" THEN "throw"
    ELSE IF o.kind = "response" /\ IsValidTranscript(SelectTranscript(o.resource))
    THEN "return"
    ELSE IF ShouldSleep(a, maxAttempts) THEN "sleep"
    ELSE "next"

NextAttemptMutant(a) == a

\* attempt++
NextAttempt(a) == a + 1

PollInit ==
    /\ cfg = getConfig(DefaultMaxAttempts, DefaultBaseDelayMs)
    /\ pollPc = "idle"
    /\ attempt = 0
    /\ fetches = 0
    /\ waits = <<>>
    /\ outcomes = <<>>
    /\ lastFetched = Null
    /\ pollResult = Null

\* for (...; attempt <= maxAttempts; ...): the loop condition with the loop variable
\* at a; the next axios.get is issued, or the loop ends and null is returned.
LoopTest(a) ==
    /\ attempt' = a
    /\ IF a <= cfg'.maxAttempts
       THEN pollPc' = "fetching" /\ fetches' = fetches + 1 /\ pollResult' = pollResult
       ELSE pollPc' = "done" /\ fetches' = fetches /\ pollResult' = Null

\* The call: let attempt = 1.
PollStart(c) ==
    /\ pollPc = "idle"
    /\ cfg' = c
    /\ LoopTest(1)
    /\ UNCHANGED <<waits, outcomes, lastFetched>>

\* The awaited axios.get settles with outcome o; the loop body runs up to the next
\* suspension point (sleep) or to the end of the function.
FetchReturn(o) ==
    /\ pollPc = "fetching"
    /\ UNCHANGED cfg
    /\ outcomes' = Append(outcomes, OutcomeClass(o))
    /\ lastFetched' = IF o.kind = "response" THEN SelectTranscript(o.resource) ELSE Null
    /\ LET to == AfterFetch(o, attempt, cfg.maxAttempts)
       IN  CASE to = "return" ->
                  /\ pollResult' = SelectTranscript(o.resource)
                  /\ pollPc' = "done"
                  /\ UNCHANGED <<waits, attempt, fetches>>
             [] to = "sleep" ->
                  /\ waits' = Append(waits, BackoffDelay(cfg.baseDelayMs, attempt))
                  /\ pollPc' = "sleeping"
                  /\ UNCHANGED <<pollResult, attempt, fetches>>
             [] to = "next" ->
                  /\ LoopTest(NextAttempt(attempt))
                  /\ UNCHANGED waits
             [] to = "throw" ->
                  /\ pollPc' = "threw"
                  /\ UNCHANGED <<pollResult, waits, attempt, fetches>>

\* The timer of sleep(delayMs) fires: attempt++ and the loop condition.
SleepDone ==
    /\ pollPc = "sleeping"
    /\ UNCHANGED cfg
    /\ LoopTest(NextAttempt(attempt))
    /\ UNCHANGED <<waits, outcomes, lastFetched>>

(***************************************************************************)
(* Strings the booking store compares: sequences of characters.            *)
(***************************************************************************)
\* String.prototype.toLowerCase, character by character.
LowerChar(c) ==
    CASE c = "A" -> "a" [] c = "B" -> "b" [] c = "G" -> "g" [] c = "H" -> "h"
      [] c = "M" -> "m" [] c = "O" -> "o" [] c = "P" -> "p" [] c = "S" -> "s"
      [] c = "T" -> "t" [] c = "U" -> "u" [] c = "X" -> "x" [] c = "Z" -> "z"
      [] c = "D" -> "d" [] c = "J" -> "j" [] c = "I" -> "i" [] c = "N" -> "n"
      [] OTHER -> c

toLowerCaseMutant(s) == s

toLowerCase(s) == [i \in DOMAIN s |-> LowerChar(s[i])]

\* The empty string, undefined and null are all falsy; one value stands for them.
NoString == <<>>
Present(s) == s # NoString

(***************************************************************************)
(* URL strings, split at the places the WHATWG URL parser splits them:     *)
(*   scheme "://" host path query hash                                     *)
(* scheme = <<>> is a string without a scheme, which new URL() rejects.    *)
(* query includes its "?", hash includes its "#".                          *)
(***************************************************************************)
MkUrl(scheme, host, path, query, hash) ==
    [scheme |-> scheme, host |-> host, path |-> path, query |-> query, hash |-> hash]

NoUrl == MkUrl(<<>>, <<>>, "", "", "")

\* new URL(url) throws a TypeError for a string without a scheme (and for "").
Parses(url) == url.scheme # <<>>

normalizeUrlMutant(url) ==
    IF Parses(url)
    THEN MkUrl(toLowerCase(url.scheme), toLowerCase(url.host),
               IF url.path = "" THEN "/" ELSE url.path, "", "")
    ELSE url

\* try { const u = new URL(url); u.hash = ''; return u.toString(); } catch { return url; }
\* The parser lower-cases scheme and host and gives an empty path the value "/";
\* the query string is kept.
normalizeUrl(url) ==
    IF Parses(url)
    THEN MkUrl(toLowerCase(url.scheme), toLowerCase(url.host),
               IF url.path = "" THEN "/" ELSE url.path, url.query, "")
    ELSE url

(***************************************************************************)
(* Start times: an ISO string, given by the epoch milliseconds it parses   *)
(* to; NoTime is a missing (falsy) value, InvalidTime a string that        *)
(* new Date() cannot parse (getTime() is NaN).                             *)
(***************************************************************************)
NoTime == -1
InvalidTime == -2

Abs(x) == IF x < 0 THEN 0 - x ELSE x

MatchWindowMinutes == 15
MatchWindowMs == MatchWindowMinutes * 60 * 1000

WithinWindowMutant(recStart, startTime) ==
    /\ recStart # InvalidTime
    /\ startTime # InvalidTime
    /\ Abs(recStart - startTime) < MatchWindowMs

\* delta <= 15 * 60 * 1000, where delta is NaN (and the test false) when either
\* date is invalid.
WithinWindow(recStart, startTime) ==
    /\ recStart # InvalidTime
    /\ startTime # InvalidTime
    /\ Abs(recStart - startTime) <= MatchWindowMs

emailsAlignMutant(rec, guestEmail, hostEmail) ==
    LET matchGuest ==
            /\ Present(rec.guestEmail)
            /\ Present(guestEmail)
            /\ rec.guestEmail = guestEmail
        matchHost ==
            \/ ~Present(rec.hostEmail)
            \/ ~Present(hostEmail)
            \/ toLowerCase(rec.hostEmail) = toLowerCase(hostEmail)
    IN  matchGuest /\ matchHost

emailsAlign(rec, guestEmail, hostEmail) ==
    LET matchGuest ==
            /\ Present(rec.guestEmail)
            /\ Present(guestEmail)
            /\ toLowerCase(rec.guestEmail) = toLowerCase(guestEmail)
        matchHost ==
            \/ ~Present(rec.hostEmail)
            \/ ~Present(hostEmail)
            \/ toLowerCase(rec.hostEmail) = toLowerCase(hostEmail)
    IN  matchGuest /\ matchHost

(***************************************************************************)
(* The booking store                                                       *)
(***************************************************************************)
TTL_HOURS == 24
TTL_MS == 1000 * 60 * 60 * TTL_HOURS

Keys(m) == {m[i].eventUuid : i \in DOMAIN m}

MapSetMutant(m, rec) == Append(m, rec)

\* Map.prototype.set: a present key keeps its place in the iteration order and
\* gets the new value; a new key goes last.
MapSet(m, rec) ==
    IF rec.eventUuid \in Keys(m)
    THEN [i \in DOMAIN m |-> IF m[i].eventUuid = rec.eventUuid THEN rec ELSE m[i]]
    ELSE Append(m, rec)

\* now - rec.createdAt > TTL_MS
Expired(rec, t) == t - rec.createdAt > TTL_MS

cleanupMutant(m, t) == m

\* for (const [key, rec] of bookings.entries()) if (expired) bookings.delete(key);
cleanup(m, t) == SelectSeq(m, LAMBDA rec : ~Expired(rec, t))

\* The two tests of the loop body of findMatch, for one record.
UrlRule(rec, cand) ==
    /\ cand.meetingUrl # NoUrl
    /\ rec.meetingUrl # NoUrl
    /\ normalizeUrl(rec.meetingUrl) = normalizeUrl(cand.meetingUrl)
    /\ emailsAlign(rec, cand.guestEmail, cand.hostEmail)

TimeRule(rec, cand) ==
    /\ cand.startTime # NoTime
    /\ rec.startTime # NoTime
    /\ WithinWindow(rec.startTime, cand.startTime)
    /\ emailsAlign(rec, cand.guestEmail, cand.hostEmail)

NoMatch == [eventUuid |-> "null"]

\* A loop that looks for a URL match in all records before it looks for a time match.
MatchFromMutant(m, cand, i) ==
    LET byUrl == {k \in i..Len(m) : UrlRule(m[k], cand)}
        byTime == {k \in i..Len(m) : TimeRule(m[k], cand)}
        First(S) == CHOOSE k \in S : \A j \in S : k <= j
    IN  IF byUrl # {} THEN m[First(byUrl)]
        ELSE IF byTime # {} THEN m[First(byTime)]
        ELSE NoMatch

\* The for loop of findMatch from index i on: the first record that passes a test.
RECURSIVE MatchFrom(_, _, _)
MatchFrom(m, cand, i) ==
    IF i > Len(m) THEN NoMatch
    ELSE IF UrlRule(m[i], cand) \/ TimeRule(m[i], cand) THEN m[i]
    ELSE MatchFrom(m, cand, i + 1)

\* The loop without the tests that a candidate field is present: a missing URL
\* compares equal to a missing URL.
RECURSIVE LooseMatchFrom(_, _, _)
LooseMatchFrom(m, cand, i) ==
    IF i > Len(m) THEN NoMatch
    ELSE IF /\ emailsAlign(m[i], cand.guestEmail, cand.hostEmail)
            /\ \/ normalizeUrl(m[i].meetingUrl) = normalizeUrl(cand.meetingUrl)
               \/ WithinWindow(m[i].startTime, cand.startTime)
    THEN m[i]
    ELSE LooseMatchFrom(m, cand, i + 1)

findMatchMutant(m, cand) == LooseMatchFrom(m, cand, 1)

\* The value findMatch returns on the store m (already swept).
findMatch(m, cand) ==
    IF cand.meetingUrl = NoUrl /\ cand.startTime = NoTime THEN NoMatch
    ELSE MatchFrom(m, cand, 1)

(***************************************************************************)
(* Calls of the booking store and the passing of time                      *)
(***************************************************************************)
MkRecord(eventUuid, meetingUrl, startTime, guestEmail, guestName, hostEmail) ==
    [eventUuid |-> eventUuid, meetingUrl |-> meetingUrl, startTime |-> startTime,
     guestEmail |-> guestEmail, guestName |-> guestName, hostEmail |-> hostEmail]

MkCandidate(meetingUrl, guestEmail, hostEmail, startTime) ==
    [meetingUrl |-> meetingUrl, guestEmail |-> guestEmail, hostEmail |-> hostEmail,
     startTime |-> startTime]

\* { ...record, createdAt: now }
Stamp(record, t) ==
    [eventUuid |-> record.eventUuid, meetingUrl |-> record.meetingUrl,
     startTime |-> record.startTime, guestEmail |-> record.guestEmail,
     guestName |-> record.guestName, hostEmail |-> record.hostEmail, createdAt |-> t]

NoCall == [op |-> "none", arg |-> NoMatch, result |-> NoMatch, at |-> 0]

addBookingStoreMutant(m, record, t) == MapSet(m, Stamp(record, t))

\* bookings.set(record.eventUuid, { ...record, createdAt: now }); cleanup(now);
addBookingStore(m, record, t) == cleanup(MapSet(m, Stamp(record, t)), t)

StoreInit ==
    /\ bookings = <<>>
    /\ now = 0
    /\ ticks = 0
    /\ lastCall = NoCall

\* function addBooking(record): set, then sweep.
addBooking(record) ==
    /\ bookings' = addBookingStore(bookings, record, now)
    /\ lastCall' = [op |-> "addBooking", arg |-> record, result |-> NoMatch, at |-> now]
    /\ UNCHANGED <<now, ticks>>

\* function findMatch(candidate): sweep, then search the swept store.
findMatchCall(cand) ==
    /\ bookings' = cleanup(bookings, now)
    /\ lastCall' = [op |-> "findMatch", arg |-> cand,
                    result |-> findMatch(bookings', cand), at |-> now]
    /\ UNCHANGED <<now, ticks>>

\* Time passes between two calls (no store code runs).
Tick(d, maxTicks) ==
    /\ ticks < maxTicks
    /\ now' = now + d
    /\ ticks' = ticks + 1
    /\ UNCHANGED <<bookings, lastCall>>

(***************************************************************************)
(* Pending-lead store: profile URLs are strings, sequences of characters   *)
(***************************************************************************)
\* null and undefined, for a URL and for a lead
NullUrl == <<"null">>
NullLead == [name |-> "null"]
NoLead == [name |-> "undefined"]

\* !linkedinUrl : null, undefined and the empty string are falsy
Falsy(x) == x = NullUrl \/ x = <<>>

IsSpace(c) == c \in {" ", "\t", "\n"}

\* String.prototype.trim
trim(s) ==
    LET solid == {i \in DOMAIN s : ~IsSpace(s[i])}
        first == CHOOSE i \in solid : \A j \in solid : i <= j
        last == CHOOSE i \in solid : \A j \in solid : j <= i
    IN  IF solid = {} THEN <<>> ELSE SubSeq(s, first, last)

\* url.split('?')[0] : everything before the first "?"
BeforeQuery(s) ==
    LET marks == {i \in DOMAIN s : s[i] = "?"}
        first == CHOOSE i \in marks : \A j \in marks : i <= j
    IN  IF marks = {} THEN s ELSE SubSeq(s, 1, first - 1)

\* url.replace(/\/+$/, '') : the trailing slashes are removed
StripTrailingSlashes(s) ==
    LET solid == {i \in DOMAIN s : s[i] # "/"}
        last == CHOOSE i \in solid : \A j \in solid : j <= i
    IN  IF solid = {} THEN <<>> ELSE SubSeq(s, 1, last)

\* the literal part of /linkedin\.com\/in\/([^\/]+)/
ProfilePattern ==
    <<"l", "i", "n", "k", "e", "d", "i", "n", ".", "c", "o", "m", "/", "i", "n", "/">>

\* the literal part of `https://www.linkedin.com/in/${match[1]}`
ProfilePrefix ==
    <<"h", "t", "t", "p", "s", ":", "/", "/", "w", "w", "w", ".", "l", "i", "n", "k",
      "e", "d", "i", "n", ".", "c", "o", "m", "/", "i", "n", "/">>

\* The pattern matches at position p: the literal, then at least one character that is
\* not a slash.
MatchesAt(s, p) ==
    /\ p + Len(ProfilePattern) <= Len(s)
    /\ SubSeq(s, p, p + Len(ProfilePattern) - 1) = ProfilePattern
    /\ s[p + Len(ProfilePattern)] # "/"

\* match[1] of the leftmost match at p: the longest run of characters without a slash
Handle(s, p) ==
    LET from == p + Len(ProfilePattern)
        stops == {j \in from..Len(s) : j = Len(s) \/ s[j + 1] = "/"}
        to == CHOOSE j \in stops : \A k \in stops : j <= k
    IN  SubSeq(s, from, to)

normalizeLinkedInUrlMutant(linkedinUrl) ==
    IF Falsy(linkedinUrl) THEN NullUrl ELSE toLowerCase(linkedinUrl)

\* function normalizeLinkedInUrl(linkedinUrl)
normalizeLinkedInUrl(linkedinUrl) ==
    IF Falsy(linkedinUrl) THEN NullUrl
    ELSE LET url == StripTrailingSlashes(BeforeQuery(trim(toLowerCase(linkedinUrl))))
             places == {p \in DOMAIN url : MatchesAt(url, p)}
             leftmost == CHOOSE p \in places : \A q \in places : p <= q
         IN  IF places # {} THEN ProfilePrefix \o Handle(url, leftmost) ELSE url

\* A lead as extractLeadData builds it; tag names the engagement it reports.
MkLead(linkedinUrl, conversation, tag) ==
    [linkedinUrl |-> linkedinUrl, conversation |-> conversation, tag |-> tag]

\* { ...lead, linkedinUrl: normalizedUrl, addedAt: new Date().toISOString() }
StampLead(lead, normalizedUrl, t) ==
    [linkedinUrl |-> normalizedUrl, conversation |-> lead.conversation,
     tag |-> lead.tag, addedAt |-> t]

IsLead(v) == v # NoLead /\ v # NullLead

LeadKeys(m) == {m[i].key : i \in DOMAIN m}

LeadMapSetMutant(m, key, value) == Append(m, [key |-> key, lead |-> value])

\* pendingLeads.set(key, value)
LeadMapSet(m, key, value) ==
    IF key \in LeadKeys(m)
    THEN [i \in DOMAIN m |->
            IF m[i].key = key THEN [key |-> key, lead |-> value] ELSE m[i]]
    ELSE Append(m, [key |-> key, lead |-> value])

\* pendingLeads.get(key) : undefined for a missing key
LeadMapGet(m, key) ==
    IF key \in LeadKeys(m)
    THEN (CHOOSE e \in {m[i] : i \in DOMAIN m} : e.key = key).lead
    ELSE NoLead

LeadMapDeleteMutant(m, key) == m

\* pendingLeads.delete(key)
LeadMapDelete(m, key) ==
    LET Other(e) == e.key # key
    IN  SelectSeq(m, Other)

\* pendingLeads.has(key), behind the same normalization
hasPendingLead(m, linkedinUrl) ==
    LET normalizedUrl == normalizeLinkedInUrl(linkedinUrl)
    IN  ~Falsy(normalizedUrl) /\ normalizedUrl \in LeadKeys(m)

\* A store that drops the leads older than the booking store's TTL on every write.
addPendingLeadStoreMutant(m, lead, t) ==
    LET normalizedUrl == normalizeLinkedInUrl(lead.linkedinUrl)
        Fresh(e) == t - e.lead.addedAt <= TTL_MS
    IN  IF Falsy(normalizedUrl) THEN m
        ELSE LeadMapSet(SelectSeq(m, Fresh), normalizedUrl,
                        StampLead(lead, normalizedUrl, t))

\* The store after addPendingLead(lead) at time t.
addPendingLeadStore(m, lead, t) ==
    LET normalizedUrl == normalizeLinkedInUrl(lead.linkedinUrl)
    IN  IF Falsy(normalizedUrl) THEN m
        ELSE LeadMapSet(m, normalizedUrl, StampLead(lead, normalizedUrl, t))

\* The value getPendingLead(linkedinUrl) returns.
getPendingLeadResult(m, linkedinUrl) ==
    LET normalizedUrl == normalizeLinkedInUrl(linkedinUrl)
    IN  IF Falsy(normalizedUrl) THEN NullLead ELSE LeadMapGet(m, normalizedUrl)

getPendingLeadStoreMutant(m, linkedinUrl) == m

\* The store after getPendingLead(linkedinUrl): a lead that was found is deleted.
getPendingLeadStore(m, linkedinUrl) ==
    LET normalizedUrl == normalizeLinkedInUrl(linkedinUrl)
    IN  IF Falsy(normalizedUrl) THEN m
        ELSE IF IsLead(LeadMapGet(m, normalizedUrl)) THEN LeadMapDelete(m, normalizedUrl)
        ELSE m

NoLeadCall == [op |-> "none", arg |-> NullUrl, key |-> NullUrl, result |-> NoLead, at |-> 0]

LeadInit ==
    /\ pendingLeads = <<>>
    /\ leadCall = NoLeadCall

\* function addPendingLead(lead); the call record keeps the lead as it was stored.
addPendingLead(lead) ==
    LET normalizedUrl == normalizeLinkedInUrl(lead.linkedinUrl)
    IN  /\ pendingLeads' = addPendingLeadStore(pendingLeads, lead, now)
        /\ leadCall' = [op |-> "addPendingLead", arg |-> lead.linkedinUrl,
                        key |-> normalizedUrl,
                        result |-> IF Falsy(normalizedUrl) THEN NullLead
                                   ELSE StampLead(lead, normalizedUrl, now),
                        at |-> now]

\* function getPendingLead(linkedinUrl)
getPendingLead(linkedinUrl) ==
    /\ pendingLeads' = getPendingLeadStore(pendingLeads, linkedinUrl)
    /\ leadCall' = [op |-> "getPendingLead", arg |-> linkedinUrl,
                    key |-> normalizeLinkedInUrl(linkedinUrl),
                    result |-> getPendingLeadResult(pendingLeads, linkedinUrl),
                    at |-> now]

(***************************************************************************)
(* Webhook handlers for HeyReach (engagement) and Clay (enrichment).       *)
(* A handler call is a task: it runs from one await to the next in one     *)
(* step; pc names the call it is awaiting.                                 *)
(***************************************************************************)
\* extractLeadData(payload): the URL is normalized, the messages form the conversation
extractLeadData(payload) ==
    MkLead(normalizeLinkedInUrl(payload.linkedinUrl), payload.conversation, payload.tag)

\* extractClayData(payload): the URL is normalized
extractClayData(payload) == [linkedinUrl |-> normalizeLinkedInUrl(payload.linkedinUrl)]

\* A handler call: its handler, position, extracted URL, the lead it holds (HeyReach:
\* the extracted lead; Clay: the value of getPendingLead), the person found, and what
\* it returned.
MkTask(handler, pc, linkedinUrl, lead, personId, success, noteAdded) ==
    [handler |-> handler, pc |-> pc, linkedinUrl |-> linkedinUrl, lead |-> lead,
     personId |-> personId, success |-> success, noteAdded |-> noteAdded]

\* findPersonByLinkedIn: the id of the person stored for the profile, else null. A
\* person is identified with its normalized profile URL.
findPersonByLinkedIn(persons, linkedinUrl) ==
    IF linkedinUrl \in persons THEN linkedinUrl ELSE NullUrl

\* createConversationNote(personId, lead, config) posts one note
createConversationNote(notes, personId, lead) ==
    Append(notes, [personId |-> personId, tag |-> lead.tag,
                   conversation |-> lead.conversation])

\* lead.conversation, pendingLead && pendingLead.conversation
HasConversation(lead) == IsLead(lead) /\ lead.conversation # ""

FlowInit ==
    /\ tasks = <<>>
    /\ attioPersons = {}
    /\ attioNotes = <<>>
    /\ attioFields = {}

Awaiting(i, handler, pc) ==
    /\ i \in DOMAIN tasks
    /\ tasks[i].handler = handler
    /\ tasks[i].pc = pc

\* handleHeyReachWebhook(payload), up to its first await or its return
handleHeyReachWebhook(payload, maxDeliveries) ==
    LET lead == extractLeadData(payload)
    IN  /\ Len(tasks) < maxDeliveries
        /\ IF Falsy(lead.linkedinUrl)
           THEN /\ tasks' = Append(tasks, MkTask("heyreach", "done", lead.linkedinUrl,
                                                 lead, NullUrl, "false", FALSE))
                /\ UNCHANGED leadVars
           ELSE /\ addPendingLead(lead)
                /\ tasks' = Append(tasks,
                        MkTask("heyreach",
                               IF HasConversation(lead) THEN "findPerson" ELSE "done",
                               lead.linkedinUrl, lead, NullUrl,
                               IF HasConversation(lead) THEN "pending" ELSE "true",
                               FALSE))
        /\ UNCHANGED <<attioPersons, attioNotes, attioFields>>

\* await findPersonByLinkedIn settles in handleHeyReachWebhook; an error is caught
HeyReachFindReturn(i, outcome) ==
    /\ Awaiting(i, "heyreach", "findPerson")
    /\ LET personId == findPersonByLinkedIn(attioPersons, tasks[i].linkedinUrl)
       IN  tasks' = [tasks EXCEPT ![i] =
                IF outcome = "ok" /\ personId # NullUrl
                THEN [@ EXCEPT !.pc = "createNote", !.personId = personId]
                ELSE [@ EXCEPT !.pc = "done", !.success = "true"]]
    /\ UNCHANGED <<leadVars, attioPersons, attioNotes, attioFields>>

\* await createConversationNote settles in handleHeyReachWebhook; an error is caught
HeyReachNoteReturn(i, outcome) ==
    /\ Awaiting(i, "heyreach", "createNote")
    /\ attioNotes' = IF outcome = "ok"
                     THEN createConversationNote(attioNotes, tasks[i].personId,
                                                 tasks[i].lead)
                     ELSE attioNotes
    /\ tasks' = [tasks EXCEPT ![i] =
            [@ EXCEPT !.pc = "done", !.success = "true", !.noteAdded = outcome = "ok"]]
    /\ UNCHANGED <<leadVars, attioPersons, attioFields>>

\* handleClayWebhook(payload), up to its first await or its return
handleClayWebhook(payload, maxDeliveries) ==
    LET enrichedData == extractClayData(payload)
    IN  /\ Len(tasks) < maxDeliveries
        /\ tasks' = Append(tasks,
                IF Falsy(enrichedData.linkedinUrl)
                THEN MkTask("clay", "done", enrichedData.linkedinUrl, NoLead, NullUrl,
                            "false", FALSE)
                ELSE MkTask("clay", "findPerson", enrichedData.linkedinUrl, NoLead,
                            NullUrl, "pending", FALSE))
        /\ UNCHANGED <<leadVars, attioPersons, attioNotes, attioFields>>

ClayFindReturnMutant(i, outcome) ==
    /\ Awaiting(i, "clay", "findPerson")
    /\ getPendingLead(tasks[i].linkedinUrl)
    /\ LET personId == findPersonByLinkedIn(attioPersons, tasks[i].linkedinUrl)
       IN  tasks' = [tasks EXCEPT ![i] =
                IF outcome # "ok"
                THEN [@ EXCEPT !.pc = "threw", !.success = "threw"]
                ELSE IF personId = NullUrl
                THEN [@ EXCEPT !.pc = "done", !.success = "false"]
                ELSE [@ EXCEPT !.pc = "updateFields", !.personId = personId]]
    /\ UNCHANGED <<attioPersons, attioNotes, attioFields>>

\* await findPersonByLinkedIn settles in handleClayWebhook; an error is rethrown
ClayFindReturn(i, outcome) ==
    /\ Awaiting(i, "clay", "findPerson")
    /\ LET personId == findPersonByLinkedIn(attioPersons, tasks[i].linkedinUrl)
       IN  tasks' = [tasks EXCEPT ![i] =
                IF outcome # "ok"
                THEN [@ EXCEPT !.pc = "threw", !.success = "threw"]
                ELSE IF personId = NullUrl
                THEN [@ EXCEPT !.pc = "done", !.success = "false"]
                ELSE [@ EXCEPT !.pc = "updateFields", !.personId = personId]]
    /\ UNCHANGED <<leadVars, attioPersons, attioNotes, attioFields>>

ClayUpdateReturnMutant(i, outcome) ==
    /\ Awaiting(i, "clay", "updateFields")
    /\ attioFields' = IF outcome = "ok" THEN attioFields \cup {tasks[i].personId}
                      ELSE attioFields
    /\ getPendingLead(tasks[i].linkedinUrl)
    /\ LET pendingLead == getPendingLeadResult(pendingLeads, tasks[i].linkedinUrl)
       IN  tasks' = [tasks EXCEPT ![i] =
                IF HasConversation(pendingLead)
                THEN [@ EXCEPT !.pc = "createNote", !.lead = pendingLead]
                ELSE [@ EXCEPT !.pc = "threw", !.lead = pendingLead,
                               !.success = "threw"]]
    /\ UNCHANGED <<attioPersons, attioNotes>>

\* await updatePersonFields settles: a patch went through or not (it catches its own
\* errors); then getPendingLead runs and the handler returns or awaits
\* createConversationNote
ClayUpdateReturn(i, outcome) ==
    /\ Awaiting(i, "clay", "updateFields")
    /\ attioFields' = IF outcome = "ok" THEN attioFields \cup {tasks[i].personId}
                      ELSE attioFields
    /\ getPendingLead(tasks[i].linkedinUrl)
    /\ LET pendingLead == getPendingLeadResult(pendingLeads, tasks[i].linkedinUrl)
       IN  tasks' = [tasks EXCEPT ![i] =
                IF HasConversation(pendingLead)
                THEN [@ EXCEPT !.pc = "createNote", !.lead = pendingLead]
                ELSE [@ EXCEPT !.pc = "done", !.lead = pendingLead,
                               !.success = "true", !.noteAdded = FALSE]]
    /\ UNCHANGED <<attioPersons, attioNotes>>

ClayNoteReturnMutant(i, outcome) ==
    /\ Awaiting(i, "clay", "createNote")
    /\ attioNotes' = IF outcome = "ok"
                     THEN createConversationNote(attioNotes, tasks[i].personId,
                                                 tasks[i].lead)
                     ELSE attioNotes
    /\ tasks' = [tasks EXCEPT ![i] =
            IF outcome = "ok"
            THEN [@ EXCEPT !.pc = "done", !.success = "true", !.noteAdded = TRUE]
            ELSE [@ EXCEPT !.pc = "threw", !.success = "threw"]]
    /\ UNCHANGED <<leadVars, attioPersons, attioFields>>

\* await createConversationNote settles in handleClayWebhook; an error is caught, and
\* noteAdded is !!(pendingLead && pendingLead.conversation) either way
ClayNoteReturn(i, outcome) ==
    /\ Awaiting(i, "clay", "createNote")
    /\ attioNotes' = IF outcome = "ok"
                     THEN createConversationNote(attioNotes, tasks[i].personId,
                                                 tasks[i].lead)
                     ELSE attioNotes
    /\ tasks' = [tasks EXCEPT ![i] =
            [@ EXCEPT !.pc = "done", !.success = "true",
                      !.noteAdded = HasConversation(tasks[i].lead)]]
    /\ UNCHANGED <<leadVars, attioPersons, attioFields>>

\* A person record for the profile is created in Attio (by the browser extension).
PersonAdded(linkedinUrl) ==
    /\ linkedinUrl \notin attioPersons
    /\ attioPersons' = attioPersons \cup {linkedinUrl}
    /\ UNCHANGED <<leadVars, tasks, attioNotes, attioFields>>

(***************************************************************************)
(* Routes /webhook/calendly and /webhook/fathom*, and the orchestrators    *)
(* handleCalendlyWebhook and handleFathomWebhook. A delivery is a run: it  *)
(* goes from one await to the next in one step; pc names the call it is    *)
(* awaiting, events lists what it did, in order.                           *)
(***************************************************************************)
\* res.status(200).json({ received: true })
Acknowledgment == [status |-> 200, body |-> "{received: true}"]

\* Something a run did, with the value of currentStep at that moment.
MkEvent(name, step) == [name |-> name, step |-> step]

\* A delivery as the route handler receives it.
NewRun(route, payload) ==
    [route |-> route, payload |-> payload, pc |-> "route",
     currentStep |-> "parse_payload", events |-> <<>>, responses |-> <<>>,
     startedAt |-> NoTime, wakeAt |-> NoTime, polledAt |-> NoTime,
     transcript |-> "pending", summary |-> "pending", matched |-> NoMatch,
     personId |-> 0, error |-> "", slack |-> "", thrown |-> "",
     outcome |-> "pending"]

Emit(run, name) ==
    [run EXCEPT !.events = Append(@, MkEvent(name, run.currentStep))]

\* The route handler answers before it calls the orchestrator.
Respond(run) ==
    Emit([run EXCEPT !.responses = Append(@, Acknowledgment)], "respond")

\* catch (error) { log(...); await sendSlackError(currentStep, error, config); ... }
Catch(run, error) ==
    Emit([run EXCEPT !.error = error, !.pc = "sendSlackError"], "sendSlackError")

\* currentStep = step; await call(...)
Await(run, step, call) ==
    Emit([run EXCEPT !.currentStep = step, !.pc = call], call)

ReturnMutant(run, outcome) ==
    [run EXCEPT !.pc = "done", !.outcome = outcome,
                !.responses = IF outcome = "threw"
                              THEN Append(@, [status |-> 500, body |-> "{error}"])
                              ELSE @]

\* return (the route handler's await settles, nothing more happens)
Return(run, outcome) == [run EXCEPT !.pc = "done", !.outcome = outcome]

\* currentStep = 'poll_transcript'; await pollForTranscript(...), called at time t
StartPoll(run, t) ==
    Await([run EXCEPT !.polledAt = t], "poll_transcript", "pollForTranscript")

StartWaitMutant(run, t) ==
    LET endTime == run.payload.endTime
    IN  IF endTime # InvalidTime /\ t < endTime
        THEN Await([run EXCEPT !.startedAt = t, !.wakeAt = t + (endTime - t)],
                   "wait_for_meeting", "sleep")
        ELSE StartPoll([run EXCEPT !.startedAt = t], t)

\* const now = new Date(); if (now < endTime) { await sleep(endTime - now + 60000) }
StartWait(run, t) ==
    LET endTime == run.payload.endTime
    IN  IF endTime # InvalidTime /\ t < endTime
        THEN Await([run EXCEPT !.startedAt = t, !.wakeAt = t + (endTime - t + 60000)],
                   "wait_for_meeting", "sleep")
        ELSE StartPoll([run EXCEPT !.startedAt = t], t)

CalendlyStartMutant(run, t) ==
    LET eventData == run.payload
    IN  IF eventData.eventUuid = "" \/ ~Present(eventData.guestEmail)
        THEN Catch(run, "Missing required fields: eventUuid or guestEmail")
        ELSE StartWait(run, t)

\* handleCalendlyWebhook from its start to its first await or return, at time t
CalendlyStart(run, t) ==
    LET eventData == run.payload
    IN  IF eventData.event # "invitee.created" THEN Return(run, "returned")
        ELSE IF eventData.eventUuid = "" \/ ~Present(eventData.guestEmail)
        THEN Catch(run, "Missing required fields: eventUuid or guestEmail")
        ELSE StartWait(run, t)

\* verifyFathomWebhook(signature, rawBody, secret)
verifyFathomWebhook(signature) == signature = "valid"

\* processFathomWebhook after the transcript is known: its two checks
ProcessFathomResult(run, hasTranscript) ==
    IF ~hasTranscript THEN Catch(run, "No transcript available from Fathom")
    ELSE IF ~Present(run.payload.guestEmail)
    THEN Catch(run, "No guest email found in Fathom webhook")
    ELSE Await(run, "generate_summary", "generateSummary")

\* handleFathomWebhook from its start to its first await
FathomStart(run) ==
    LET payload == run.payload
    IN  IF /\ payload.signature # ""
           /\ payload.webhookSecret
           /\ ~verifyFathomWebhook(payload.signature)
        THEN Catch(run, "Invalid Fathom webhook signature")
        ELSE IF payload.transcript = "" /\ payload.recordingId
        THEN Await(run, "process_fathom", "fetchFathomTranscript")
        ELSE Await(run, "process_fathom", "processFathomWebhook")

\* findPersonByEmail: records[0] of the query, 0 for null
findPersonByEmail(people, email) ==
    LET hits == {i \in DOMAIN people : people[i] = email}
    IN  IF hits = {} THEN 0 ELSE CHOOSE i \in hits : \A j \in hits : i <= j

\* The candidate handleFathomWebhook gives findMatch: processFathomWebhook returns
\* no meetingUrl, hostEmail or startTime, so these are undefined.
FathomCandidate(run) == MkCandidate(NoUrl, run.payload.guestEmail, NoString, NoTime)

\* correlationNote
CorrelationNote(matched) ==
    IF matched # NoMatch THEN matched.eventUuid ELSE "No Calendly match found"

OrchInit ==
    /\ runs = <<>>
    /\ attioPeople = <<>>
    /\ attioMeetingNotes = <<>>
    /\ slackPosts = <<>>

At(i, route, pc) ==
    /\ i \in DOMAIN runs
    /\ runs[i].route \in route
    /\ runs[i].pc = pc

SetRun(i, run) == runs' = [runs EXCEPT ![i] = run]

\* app.post('/webhook/calendly'): respond, then handleCalendlyWebhook(req.body)
CalendlyRoute(payload, maxRuns) ==
    /\ Len(runs) < maxRuns
    /\ runs' = Append(runs, CalendlyStart(Respond(NewRun("calendly", payload)), now))
    /\ UNCHANGED <<attioPeople, attioMeetingNotes, slackPosts, storeVars>>

\* app.post('/webhook/fathom...'): respond, then handleFathomWebhook(req.body, ...)
FathomRoute(payload, maxRuns) ==
    /\ Len(runs) < maxRuns
    /\ runs' = Append(runs, FathomStart(Respond(NewRun("fathom", payload))))
    /\ UNCHANGED <<attioPeople, attioMeetingNotes, slackPosts, storeVars>>

\* await sleep(waitMs) settles: the timer fires no earlier than it was set for
MeetingWaitDone(i) ==
    /\ At(i, {"calendly"}, "sleep")
    /\ now' = IF now < runs[i].wakeAt THEN runs[i].wakeAt ELSE now
    /\ SetRun(i, StartPoll(runs[i], now'))
    /\ UNCHANGED <<attioPeople, attioMeetingNotes, slackPosts, bookings, ticks, lastCall>>

PollReturnMutant(i, transcript) ==
    /\ At(i, {"calendly"}, "pollForTranscript")
    /\ SetRun(i, Await([runs[i] EXCEPT !.transcript = transcript],
                       "generate_summary", "generateSummary"))
    /\ UNCHANGED <<attioPeople, attioMeetingNotes, slackPosts, storeVars>>

\* await pollForTranscript settles, with a transcript or with null
PollReturn(i, transcript) ==
    /\ At(i, {"calendly"}, "pollForTranscript")
    /\ SetRun(i, LET run == [runs[i] EXCEPT !.transcript = transcript]
                 IN  IF transcript = "null"
                     THEN Catch(run, "Transcript not available after maximum retries")
                     ELSE Await(run, "generate_summary", "generateSummary"))
    /\ UNCHANGED <<attioPeople, attioMeetingNotes, slackPosts, storeVars>>

\* await fetchFathomTranscript settles inside processFathomWebhook
FathomFetchReturn(i, outcome) ==
    /\ At(i, {"fathom"}, "fetchFathomTranscript")
    /\ SetRun(i, IF outcome = "error" THEN Catch(runs[i], "Fathom API error")
                 ELSE ProcessFathomResult(runs[i], outcome = "transcript"))
    /\ UNCHANGED <<attioPeople, attioMeetingNotes, slackPosts, storeVars>>

\* await processFathomWebhook settles (the transcript came with the payload, or not)
FathomProcessReturn(i) ==
    /\ At(i, {"fathom"}, "processFathomWebhook")
    /\ SetRun(i, ProcessFathomResult(runs[i], runs[i].payload.transcript # ""))
    /\ UNCHANGED <<attioPeople, attioMeetingNotes, slackPosts, storeVars>>

CalendlySummaryReturnMutant(i, outcome) ==
    /\ At(i, {"calendly"}, "generateSummary")
    /\ SetRun(i, Await([runs[i] EXCEPT !.summary = outcome],
                       "attio_upsert", "findPersonByEmail"))
    /\ UNCHANGED <<attioPeople, attioMeetingNotes, slackPosts, storeVars>>

\* await generateSummary settles in handleCalendlyWebhook
CalendlySummaryReturn(i, outcome) ==
    /\ At(i, {"calendly"}, "generateSummary")
    /\ SetRun(i, LET run == [runs[i] EXCEPT !.summary = outcome]
                 IN  IF outcome = "error" THEN Catch(run, "OpenAI API error")
                     ELSE Await(run, "attio_upsert", "findPersonByEmail"))
    /\ UNCHANGED <<attioPeople, attioMeetingNotes, slackPosts, storeVars>>

FathomSummaryReturnMutant(i, outcome) ==
    /\ At(i, {"fathom"}, "generateSummary")
    /\ IF outcome = "error"
       THEN /\ SetRun(i, Catch(runs[i], "OpenAI API error"))
            /\ UNCHANGED storeVars
       ELSE /\ findMatchCall(FathomCandidate(runs[i]))
            /\ SetRun(i, IF findMatch(cleanup(bookings, now),
                                      FathomCandidate(runs[i])) = NoMatch
                         THEN Catch(Emit(runs[i], "findMatch"), "No Calendly match found")
                         ELSE Await([Emit(runs[i], "findMatch") EXCEPT
                                        !.matched = findMatch(cleanup(bookings, now),
                                                              FathomCandidate(runs[i]))],
                                    "attio_upsert", "findPersonByEmail"))
    /\ UNCHANGED <<attioPeople, attioMeetingNotes, slackPosts>>

\* await generateSummary settles in handleFathomWebhook; findMatch runs before the
\* upsert is started
FathomSummaryReturn(i, outcome) ==
    /\ At(i, {"fathom"}, "generateSummary")
    /\ IF outcome = "error"
       THEN /\ SetRun(i, Catch(runs[i], "OpenAI API error"))
            /\ UNCHANGED storeVars
       ELSE /\ findMatchCall(FathomCandidate(runs[i]))
            /\ SetRun(i, Await([Emit(runs[i], "findMatch") EXCEPT
                                    !.matched = findMatch(cleanup(bookings, now),
                                                          FathomCandidate(runs[i]))],
                               "attio_upsert", "findPersonByEmail"))
    /\ UNCHANGED <<attioPeople, attioMeetingNotes, slackPosts>>

\* upsertPersonAndNote: await findPersonByEmail settles; 404 and 400 count as no result
FindPersonByEmailReturn(i, outcome) ==
    /\ At(i, {"calendly", "fathom"}, "findPersonByEmail")
    /\ LET personId == IF outcome = "ok"
                       THEN findPersonByEmail(attioPeople, runs[i].payload.guestEmail)
                       ELSE 0
       IN  SetRun(i, IF outcome = "error" THEN Catch(runs[i], "Attio search error")
                     ELSE IF personId = 0 THEN Emit([runs[i] EXCEPT !.pc = "createPerson"],
                                                    "createPerson")
                     ELSE Emit([runs[i] EXCEPT !.pc = "createNote",
                                               !.personId = personId], "createNote"))
    /\ UNCHANGED <<attioPeople, attioMeetingNotes, slackPosts, storeVars>>

\* upsertPersonAndNote: await createPerson settles
CreatePersonReturn(i, outcome) ==
    /\ At(i, {"calendly", "fathom"}, "createPerson")
    /\ attioPeople' = IF outcome = "ok"
                      THEN Append(attioPeople, runs[i].payload.guestEmail)
                      ELSE attioPeople
    /\ SetRun(i, IF outcome = "ok"
                 THEN Emit([runs[i] EXCEPT !.pc = "createNote",
                                           !.personId = Len(attioPeople) + 1],
                           "createNote")
                 ELSE Catch(runs[i], "Attio create person error"))
    /\ UNCHANGED <<attioMeetingNotes, slackPosts, storeVars>>

\* upsertPersonAndNote: await createNote settles; the orchestrator returns the result
CreateNoteReturn(i, outcome) ==
    /\ At(i, {"calendly", "fathom"}, "createNote")
    /\ attioMeetingNotes' =
            IF outcome = "ok"
            THEN Append(attioMeetingNotes,
                        [personId |-> runs[i].personId, run |-> i,
                         correlationNote |-> IF runs[i].route = "fathom"
                                             THEN CorrelationNote(runs[i].matched)
                                             ELSE ""])
            ELSE attioMeetingNotes
    /\ SetRun(i, IF outcome = "ok" THEN Return(runs[i], "returned")
                 ELSE Catch(runs[i], "Attio create note error"))
    /\ UNCHANGED <<attioPeople, slackPosts, storeVars>>

SlackReturnMutant(i, outcome) ==
    /\ At(i, {"calendly", "fathom"}, "sendSlackError")
    /\ slackPosts' = IF outcome = "posted"
                     THEN Append(slackPosts, [run |-> i, step |-> runs[i].currentStep,
                                              error |-> runs[i].error])
                     ELSE slackPosts
    /\ SetRun(i, [Return(runs[i], "threw") EXCEPT
                        !.slack = outcome,
                        !.thrown = IF outcome = "postFailed" THEN "Slack post failed"
                                   ELSE runs[i].error])
    /\ UNCHANGED <<attioPeople, attioMeetingNotes, storeVars>>

\* await sendSlackError settles (not configured, posted, or post failed and logged);
\* then: throw error
SlackReturn(i, outcome) ==
    /\ At(i, {"calendly", "fathom"}, "sendSlackError")
    /\ slackPosts' = IF outcome = "posted"
                     THEN Append(slackPosts, [run |-> i, step |-> runs[i].currentStep,
                                              error |-> runs[i].error])
                     ELSE slackPosts
    /\ SetRun(i, [Return(runs[i], "threw") EXCEPT !.slack = outcome,
                                                  !.thrown = runs[i].error])
    /\ UNCHANGED <<attioPeople, attioMeetingNotes, storeVars>>

(***************************************************************************)
(* updatePersonFields: the email patch, then the phone patch, each in its  *)
(* own try/catch. A call goes from one await to the next in one step.      *)
(***************************************************************************)
IsDigit(c) == c \in {"0", "1", "2", "3", "4", "5", "6", "7", "8", "9"}

\* fields.phone.toString().trim()
cleanPhone(phone) == trim(phone)

\* /\d{7,}/.test(cleanPhone.replace(/\D/g, ''))
hasDigits(phone) == Len(SelectSeq(phone, IsDigit)) >= 7

\* const results = { emailUpdated: false, phoneUpdated: false }
NewUpdate(personId, fields) ==
    [personId |-> personId, fields |-> fields, pc |-> "start", patches |-> <<>>,
     results |-> [emailUpdated |-> FALSE, phoneUpdated |-> FALSE]]

\* The part after the email block: the phone patch is sent, skipped, or not asked for.
PhoneBlock(call) ==
    IF Present(call.fields.phone) /\ hasDigits(cleanPhone(call.fields.phone))
    THEN [call EXCEPT !.pc = "patchPhone"]
    ELSE [call EXCEPT !.pc = "done"]

\* The call up to its first await or its return.
EmailBlock(call) ==
    IF Present(call.fields.email) THEN [call EXCEPT !.pc = "patchEmail"]
    ELSE PhoneBlock(call)

\* What the patch of one field, settled with outcome, leaves in the call record.
Patched(call, field, value, outcome) ==
    [call EXCEPT !.patches = Append(@, [field |-> field, value |-> value,
                                        outcome |-> outcome])]

UpdateInit == updates = <<>>

UpdateAt(k, pc) == k \in DOMAIN updates /\ updates[k].pc = pc

\* updatePersonFields(personId, fields, config)
updatePersonFields(personId, fields, maxCalls) ==
    /\ Len(updates) < maxCalls
    /\ updates' = Append(updates, EmailBlock(NewUpdate(personId, fields)))

EmailPatchReturnMutant(k, outcome) ==
    /\ UpdateAt(k, "patchEmail")
    /\ updates' = [updates EXCEPT ![k] =
            IF outcome = "ok"
            THEN PhoneBlock([Patched(@, "email", @.fields.email, outcome)
                                EXCEPT !.results.emailUpdated = TRUE])
            ELSE IF outcome = "uniqueness_conflict"
            THEN PhoneBlock(Patched(@, "email", @.fields.email, outcome))
            ELSE [Patched(@, "email", @.fields.email, outcome) EXCEPT !.pc = "threw"]]

\* await axios.patch of email_addresses settles; an error is caught and logged
EmailPatchReturn(k, outcome) ==
    /\ UpdateAt(k, "patchEmail")
    /\ updates' = [updates EXCEPT ![k] =
            IF outcome = "ok"
            THEN PhoneBlock([Patched(@, "email", @.fields.email, outcome)
                                EXCEPT !.results.emailUpdated = TRUE])
            ELSE PhoneBlock(Patched(@, "email", @.fields.email, outcome))]

\* await axios.patch of phone_numbers settles; an error is caught and logged
PhonePatchReturn(k, outcome) ==
    /\ UpdateAt(k, "patchPhone")
    /\ updates' = [updates EXCEPT ![k] =
            LET call == Patched(@, "phone", cleanPhone(@.fields.phone), outcome)
            IN  IF outcome = "ok"
                THEN [call EXCEPT !.pc = "done", !.results.phoneUpdated = TRUE]
                ELSE [call EXCEPT !.pc = "done"]]

(***************************************************************************)
(* Inputs                                                                  *)
(***************************************************************************)
https == <<"h", "t", "t", "p", "s">>
HTTPS == <<"H", "T", "T", "P", "S">>
zoom == <<"z", "o", "o", "m">>
ZOOM == <<"Z", "o", "o", "M">>

UrlQuery == MkUrl(https, zoom, "/j/123", "?pwd=abc", "")
UrlPlain == MkUrl(https, zoom, "/j/123", "", "")
UrlUpperHash == MkUrl(HTTPS, ZOOM, "/j/123", "?pwd=abc", "#frag")
UrlOther == MkUrl(https, zoom, "/j/456", "?pwd=abc", "")
UrlBare == MkUrl(<<>>, zoom, "/j/123", "?pwd=abc", "#frag")

guestA == <<"a", "@", "x">>
guestAUpper == <<"A", "@", "X">>
guestB == <<"b", "@", "x">>
hostH == <<"h", "@", "x">>
hostHUpper == <<"H", "@", "X">>
hostG == <<"g", "@", "x">>

\* Profile URLs as the webhooks carry them.
HttpsWww ==
    <<"h", "t", "t", "p", "s", ":", "/", "/", "w", "w", "w", ".">>
LinkedInIn ==
    <<"l", "i", "n", "k", "e", "d", "i", "n", ".", "c", "o", "m", "/", "i", "n", "/">>
johndoe ==
    <<"j", "o", "h", "n", "d", "o", "e">>
JohnDoe ==
    <<"J", "o", "h", "n", "D", "o", "e">>
ann ==
    <<"a", "n", "n">>
TrkQuery ==
    <<"?", "t", "r", "k", "=", "x">>
Fragment ==
    <<"#", "f", "r", "a", "g">>

\* linkedin.com/in/johndoe/
RawBare == LinkedInIn \o johndoe \o <<"/">>
\* https://www.linkedin.com/in/JohnDoe?trk=x
RawMixed == HttpsWww \o LinkedInIn \o JohnDoe \o TrkQuery
\* https://www.linkedin.com/in/johndoe
RawCanonical == HttpsWww \o LinkedInIn \o johndoe
\* https://www.linkedin.com/in/johndoe#frag
RawFragment == RawCanonical \o Fragment
\* " https://www.linkedin.com/in/johndoe/ "
RawPadded == <<" ">> \o RawCanonical \o <<"/", " ">>
\* "https://www.linkedin.com/in/johndoe ?trk=x" : a space before the query string
RawEmbedded == RawCanonical \o <<" ">> \o TrkQuery
\* https://www.linkedin.com/in/ann/details/
RawDetails == HttpsWww \o LinkedInIn \o ann \o <<"/", "d", "e", "t", "a", "i", "l", "s", "/">>
\* https://www.linkedin.com/in/ann
RawAnn == HttpsWww \o LinkedInIn \o ann
\* https://www.Ann.io/ : not a profile URL
RawOther == HttpsWww \o <<"A", "n", "n", ".", "i", "o", "/">>
\* " " : only whitespace
RawBlank == <<" ">>

RawUrls ==
    {RawBare, RawMixed, RawCanonical, RawFragment, RawPadded, RawEmbedded, RawDetails,
     RawAnn, RawOther, RawBlank, <<>>, NullUrl}

\* Pending-lead store: two profiles, one of them also with a space left before the
\* query string, a lead with and one without messages, a clock that passes the booking
\* store's TTL.
LeadMaxTicks == 1
LeadClockSteps == {TTL_MS + 1}

StoredLeads ==
    {MkLead(u, "Hi John", "G1") : u \in {RawMixed, RawEmbedded, RawAnn, RawBlank}}
        \cup {MkLead(RawMixed, "", "G1")}

\* Webhook deliveries: one profile, an engagement with and one without messages.
MaxDeliveries == 3
ApiOutcomes == {"ok", "error"}

HeyReachPayloads ==
    {MkLead(RawMixed, "Hi John", "G1"), MkLead(RawMixed, "", "G2"),
     MkLead(NullUrl, "Hi John", "G1")}

ClayPayloads == {[linkedinUrl |-> RawBare], [linkedinUrl |-> NullUrl]}

\* A scheduled start, in epoch milliseconds.
T0 == 4 * MatchWindowMs

EventIds == {"E1", "E2"}

\* Store lifecycle: few record shapes, a clock that reaches both sides of the TTL.
MaxTicks == 3
ClockSteps == {1, TTL_MS - 1}

LifecycleRecords ==
    {MkRecord(id, UrlQuery, T0, guestA, name, NoString) :
        id \in EventIds, name \in {"Ann", "Bob"}}

\* The notetaker report {meetingUrl: "https://zoom.us/j/123", guestEmail: "A@X.com"}
\* with a start five minutes after T0.
NotetakerCandidate == MkCandidate(UrlPlain, guestAUpper, NoString, T0 + 5 * 60 * 1000)

LifecycleCandidates ==
    {MkCandidate(UrlQuery, guestA, NoString, NoTime),
     MkCandidate(NoUrl, guestAUpper, NoString, T0 + MatchWindowMs),
     MkCandidate(UrlOther, guestB, NoString, T0),
     MkCandidate(NoUrl, guestA, NoString, NoTime),
     NotetakerCandidate}

\* Matching: many record and candidate shapes, a clock that can pass the TTL.
MatchMaxTicks == 1
MatchClockSteps == {TTL_MS + 1}

MatchRecords ==
    {MkRecord("E1", u, t, guestA, "Ann", h) :
        u \in {NoUrl, UrlQuery}, t \in {NoTime, T0}, h \in {NoString, hostH}}
    \cup {MkRecord("E2", UrlQuery, NoTime, guestA, "Bob", NoString),
          MkRecord("E2", NoUrl, T0, NoString, "Bob", hostH),
          MkRecord("E2", UrlBare, InvalidTime, guestA, "Bob", hostG)}

MatchCandidates ==
    {MkCandidate(u, g, h, t) :
        u \in {NoUrl, UrlPlain, UrlUpperHash, UrlBare},
        g \in {NoString, guestAUpper, guestB},
        h \in {NoString, hostHUpper, hostG},
        t \in {NoTime, InvalidTime, T0 + MatchWindowMs, T0 + MatchWindowMs + 1}}

(***************************************************************************)
(* Specifications                                                          *)
(***************************************************************************)
\* Deliveries to the routes. A Calendly payload: event, the event id taken from
\* scheduled_event.uri ("" when missing), invitee email, scheduled end.
MaxWebhooks == 2
MeetingEnd == 30 * 60 * 1000

CalendlyPayloads ==
    {[event |-> "invitee.created", eventUuid |-> "E1", guestEmail |-> guestA,
      endTime |-> e] : e \in {0, MeetingEnd, InvalidTime}}
        \cup {[event |-> "invitee.canceled", eventUuid |-> "E1", guestEmail |-> guestA,
               endTime |-> MeetingEnd],
              [event |-> "invitee.created", eventUuid |-> "", guestEmail |-> guestA,
               endTime |-> MeetingEnd],
              [event |-> "invitee.created", eventUuid |-> "E1", guestEmail |-> NoString,
               endTime |-> 0]}

\* A Fathom delivery: signature header ("" when missing), whether the account has a
\* webhook secret, the transcript in the payload ("" when missing), whether it has a
\* recording_id, the guest email found among the attendees.
FathomPayloads ==
    {[signature |-> "valid", webhookSecret |-> TRUE, transcript |-> t,
      recordingId |-> r, guestEmail |-> g] :
        t \in {"", "Hello"}, r \in BOOLEAN, g \in {guestA, NoString}}
        \cup {[signature |-> sig, webhookSecret |-> sec, transcript |-> "Hello",
               recordingId |-> FALSE, guestEmail |-> guestA] :
                sig \in {"", "invalid"}, sec \in BOOLEAN}

SlackOutcomes == {"notConfigured", "posted", "postFailed"}
SearchOutcomes == {"ok", "noResult", "error"}
TranscriptOutcomes == {"transcript", "empty", "error"}

\* The booking that addBooking is given while deliveries are handled.
WebhookBooking == MkRecord("E1", UrlQuery, T0, guestA, "Ann", NoString)

\* Calls of updatePersonFields: the enriched email and phone of Clay ("" when absent).
MaxUpdates == 2
PhoneShort == <<"5", "5", "5", "-", "1", "2", "3">>
PhoneSeven == <<" ", "5", "5", "5", "-", "1", "2", "3", "4">>
PhoneWords == <<"n", "/", "a">>
UpdateFields ==
    {[email |-> e, phone |-> ph] :
        e \in {NoString, guestA}, ph \in {NoString, PhoneShort, PhoneSeven, PhoneWords}}
PatchOutcomes == {"ok", "uniqueness_conflict", "error"}

Init == PollInit /\ StoreInit /\ LeadInit /\ FlowInit /\ OrchInit /\ UpdateInit

PollNext ==
    \/ \E c \in Configs : PollStart(c) /\ UNCHANGED <<updateVars, storeVars, leadVars, flowVars, orchVars>>
    \/ \E o \in FetchOutcomes : FetchReturn(o) /\ UNCHANGED <<updateVars, storeVars, leadVars, flowVars, orchVars>>
    \/ SleepDone /\ UNCHANGED <<updateVars, storeVars, leadVars, flowVars, orchVars>>

\* One call of pollForTranscript with any configuration and any fetch outcomes.
PollSpec == Init /\ [][PollNext]_vars

\* Every awaited axios.get settles and every timer fires.
PollLiveSpec ==
    /\ Init
    /\ [][PollNext]_vars
    /\ WF_vars(\E o \in FetchOutcomes : FetchReturn(o) /\ UNCHANGED <<updateVars, storeVars, leadVars, flowVars, orchVars>>)
    /\ WF_vars(SleepDone /\ UNCHANGED <<updateVars, storeVars, leadVars, flowVars, orchVars>>)

StoreNext ==
    \/ \E r \in LifecycleRecords : addBooking(r) /\ UNCHANGED <<updateVars, pollVars, leadVars, flowVars, orchVars>>
    \/ \E c \in LifecycleCandidates : findMatchCall(c) /\ UNCHANGED <<updateVars, pollVars, leadVars, flowVars, orchVars>>
    \/ \E d \in ClockSteps : Tick(d, MaxTicks) /\ UNCHANGED <<updateVars, pollVars, leadVars, flowVars, orchVars>>

\* Any sequence of addBooking and findMatch calls, with time passing in between.
StoreSpec == Init /\ [][StoreNext]_vars

MatchNext ==
    \/ \E r \in MatchRecords : addBooking(r) /\ UNCHANGED <<updateVars, pollVars, leadVars, flowVars, orchVars>>
    \/ \E c \in MatchCandidates : findMatchCall(c) /\ UNCHANGED <<updateVars, pollVars, leadVars, flowVars, orchVars>>
    \/ \E d \in MatchClockSteps : Tick(d, MatchMaxTicks) /\ UNCHANGED <<updateVars, pollVars, leadVars, flowVars, orchVars>>

\* The same calls, with the inputs that exercise the matching rules.
MatchSpec == Init /\ [][MatchNext]_vars

LeadNext ==
    \/ \E l \in StoredLeads : addPendingLead(l) /\ UNCHANGED <<updateVars, pollVars, storeVars, flowVars, orchVars>>
    \/ \E u \in RawUrls : getPendingLead(u) /\ UNCHANGED <<updateVars, pollVars, storeVars, flowVars, orchVars>>
    \/ \E d \in LeadClockSteps :
            Tick(d, LeadMaxTicks) /\ UNCHANGED <<updateVars, pollVars, leadVars, flowVars, orchVars>>

\* Any sequence of addPendingLead and getPendingLead calls, with time passing in between.
LeadSpec == Init /\ [][LeadNext]_vars

FlowNext ==
    \/ \E p \in HeyReachPayloads :
            handleHeyReachWebhook(p, MaxDeliveries) /\ UNCHANGED <<updateVars, pollVars, storeVars, orchVars>>
    \/ \E i \in 1..MaxDeliveries, o \in ApiOutcomes :
            HeyReachFindReturn(i, o) /\ UNCHANGED <<updateVars, pollVars, storeVars, orchVars>>
    \/ \E i \in 1..MaxDeliveries, o \in ApiOutcomes :
            HeyReachNoteReturn(i, o) /\ UNCHANGED <<updateVars, pollVars, storeVars, orchVars>>
    \/ \E p \in ClayPayloads :
            handleClayWebhook(p, MaxDeliveries) /\ UNCHANGED <<updateVars, pollVars, storeVars, orchVars>>
    \/ \E i \in 1..MaxDeliveries, o \in ApiOutcomes :
            ClayFindReturn(i, o) /\ UNCHANGED <<updateVars, pollVars, storeVars, orchVars>>
    \/ \E i \in 1..MaxDeliveries, o \in ApiOutcomes :
            ClayUpdateReturn(i, o) /\ UNCHANGED <<updateVars, pollVars, storeVars, orchVars>>
    \/ \E i \in 1..MaxDeliveries, o \in ApiOutcomes :
            ClayNoteReturn(i, o) /\ UNCHANGED <<updateVars, pollVars, storeVars, orchVars>>
    \/ PersonAdded(RawCanonical) /\ UNCHANGED <<updateVars, pollVars, storeVars, orchVars>>

\* Any deliveries of the two webhooks, their handler calls interleaved at the awaits.
FlowSpec == Init /\ [][FlowNext]_vars

\* The orchestrator steps of run i.
RunStep(i) ==
    \/ MeetingWaitDone(i)
    \/ \E t \in {"transcript", "null"} : PollReturn(i, t)
    \/ \E o \in TranscriptOutcomes : FathomFetchReturn(i, o)
    \/ FathomProcessReturn(i)
    \/ \E o \in ApiOutcomes : CalendlySummaryReturn(i, o)
    \/ \E o \in ApiOutcomes : FathomSummaryReturn(i, o)
    \/ \E o \in SearchOutcomes : FindPersonByEmailReturn(i, o)
    \/ \E o \in ApiOutcomes : CreatePersonReturn(i, o)
    \/ \E o \in ApiOutcomes : CreateNoteReturn(i, o)
    \/ \E o \in SlackOutcomes : SlackReturn(i, o)

\* The handler steps of task i.
TaskStep(i) ==
    \/ \E o \in ApiOutcomes : HeyReachFindReturn(i, o)
    \/ \E o \in ApiOutcomes : HeyReachNoteReturn(i, o)
    \/ \E o \in ApiOutcomes : ClayFindReturn(i, o)
    \/ \E o \in ApiOutcomes : ClayUpdateReturn(i, o)
    \/ \E o \in ApiOutcomes : ClayNoteReturn(i, o)

WebhookNext ==
    \/ \E p \in CalendlyPayloads :
            CalendlyRoute(p, MaxWebhooks - Len(tasks))
                /\ UNCHANGED <<updateVars, pollVars, leadVars, flowVars>>
    \/ \E p \in FathomPayloads :
            FathomRoute(p, MaxWebhooks - Len(tasks))
                /\ UNCHANGED <<updateVars, pollVars, leadVars, flowVars>>
    \/ \E i \in 1..MaxWebhooks : RunStep(i) /\ UNCHANGED <<updateVars, pollVars, leadVars, flowVars>>
    \/ \E p \in HeyReachPayloads :
            handleHeyReachWebhook(p, MaxWebhooks - Len(runs))
                /\ UNCHANGED <<updateVars, pollVars, storeVars, orchVars>>
    \/ \E p \in ClayPayloads :
            handleClayWebhook(p, MaxWebhooks - Len(runs))
                /\ UNCHANGED <<updateVars, pollVars, storeVars, orchVars>>
    \/ \E i \in 1..MaxWebhooks : TaskStep(i) /\ UNCHANGED <<updateVars, pollVars, storeVars, orchVars>>
    \/ PersonAdded(RawCanonical) /\ UNCHANGED <<updateVars, pollVars, storeVars, orchVars>>
    \/ addBooking(WebhookBooking)
            /\ UNCHANGED <<updateVars, pollVars, leadVars, flowVars, orchVars>>

\* Any deliveries to the four webhook handlers, interleaved at their awaits, while a
\* booking may be added to the booking store.
WebhookSpec == Init /\ [][WebhookNext]_vars

UpdateNext ==
    \/ \E f \in UpdateFields :
            updatePersonFields("P1", f, MaxUpdates)
                /\ UNCHANGED <<pollVars, storeVars, leadVars, flowVars, orchVars>>
    \/ \E k \in 1..MaxUpdates, o \in PatchOutcomes :
            EmailPatchReturn(k, o)
                /\ UNCHANGED <<pollVars, storeVars, leadVars, flowVars, orchVars>>
    \/ \E k \in 1..MaxUpdates, o \in PatchOutcomes :
            PhonePatchReturn(k, o)
                /\ UNCHANGED <<pollVars, storeVars, leadVars, flowVars, orchVars>>

\* Any calls of updatePersonFields, interleaved at their awaits.
UpdateSpec == Init /\ [][UpdateNext]_vars

(***************************************************************************)
(* Properties of pollForTranscript                                         *)
(***************************************************************************)
Rejected(class) == class # "accepted"

LastOutcome == outcomes[Len(outcomes)]

\* C1: when every fetch failed or gave a transcript the validity check rejects, the
\* finished call has made exactly maxAttempts fetches, has waited
\* baseDelayMs * 2^(i-1) after failed attempt i for each i < maxAttempts and not
\* after the last one, and has returned null.
C1_RetryBudget ==
    (pollPc \in {"done", "threw"} /\ \A i \in DOMAIN outcomes : Rejected(outcomes[i])) =>
        /\ pollPc = "done"
        /\ fetches = cfg.maxAttempts
        /\ Len(outcomes) = cfg.maxAttempts
        /\ Len(waits) = cfg.maxAttempts - 1
        /\ \A i \in DOMAIN waits : waits[i] = cfg.baseDelayMs * 2^(i - 1)
        /\ pollResult = Null

C1_Witness ==
    /\ pollPc = "done"
    /\ pollResult = Null
    /\ cfg.maxAttempts = DefaultMaxAttempts
    /\ cfg.baseDelayMs = DefaultBaseDelayMs
    /\ fetches = 5
    /\ waits = <<30000, 60000, 120000, 240000>>
    /\ \E i \in DOMAIN outcomes : outcomes[i] = "notReady"
    /\ \E i \in DOMAIN outcomes : outcomes[i] = "notFound"

\* C2: when attempt i is the first whose transcript passes the validity check, the
\* call returns that transcript after exactly i fetches and i-1 waits; nothing is
\* fetched or waited for after it.
C2_ReturnsOnFirstAccepted ==
    \A i \in DOMAIN outcomes :
        outcomes[i] = "accepted" =>
            /\ i = Len(outcomes)
            /\ pollPc = "done"
            /\ pollResult = lastFetched
            /\ pollResult # Null
            /\ fetches = i
            /\ Len(waits) = i - 1

C2_Witness ==
    /\ pollPc = "done"
    /\ Len(outcomes) = 3
    /\ outcomes[3] = "accepted"
    /\ pollResult = [field |-> "meeting_notes.summary", len |-> MinTranscriptLength + 1]
    /\ fetches = 3
    /\ Len(waits) = 2
    /\ cfg.maxAttempts = DefaultMaxAttempts

\* C3: every delay waited between attempts is at most the configured
\* retry.maxDelayMs, whatever maxAttempts and baseDelayMs are.
C3_DelaysWithinCeiling ==
    \A i \in DOMAIN waits : waits[i] <= cfg.maxDelayMs

ErrorOutcomes == {o \in FetchOutcomes : o.kind # "response"}

\* C4: no fetch outcome makes the call throw or stop before its attempts are used:
\* a 404, another HTTP error, a network fault or a malformed body on attempt
\* i < maxAttempts is followed by a wait and then by attempt i+1.
C4_ErrorsOnlyTriggerRetry ==
    /\ [](pollPc # "threw")
    /\ [][\A o \in ErrorOutcomes :
            (FetchReturn(o) /\ attempt < cfg.maxAttempts) =>
                /\ pollPc' = "sleeping"
                /\ Len(waits') = Len(waits) + 1
                /\ attempt' = attempt
                /\ pollResult' = pollResult]_vars
    /\ [][(pollPc = "sleeping" /\ pollPc' # "sleeping") =>
                /\ pollPc' = "fetching"
                /\ attempt' = attempt + 1
                /\ fetches' = fetches + 1
                /\ attempt' <= cfg.maxAttempts]_vars

C4_Witness ==
    /\ pollPc = "fetching"
    /\ attempt = 4
    /\ fetches = 4
    /\ outcomes = <<"error", "notFound", "error">>
    /\ Len(waits) = 3

\* C5: when every fetch settles, the call terminates with an accepted transcript or
\* null, after at most maxAttempts fetches and at most maxAttempts-1 waits.
C5_Terminates ==
    /\ [](pollPc # "idle" =>
            /\ fetches <= cfg.maxAttempts
            /\ Len(waits) <= cfg.maxAttempts - 1)
    /\ [](pollPc = "done" =>
            \/ pollResult = Null
            \/ pollResult = lastFetched /\ LastOutcome = "accepted")
    /\ (pollPc = "fetching") ~> (pollPc = "done")

C5_Witness ==
    /\ pollPc = "done"
    /\ pollResult = Null
    /\ cfg.maxAttempts = MaxAttemptsBound
    /\ fetches = cfg.maxAttempts
    /\ Len(waits) = cfg.maxAttempts - 1
    /\ LastOutcome = "error"

C6_WitnessAccepted ==
    /\ pollPc = "done"
    /\ lastFetched.len = 51
    /\ pollResult = lastFetched


(***************************************************************************)
(* Properties of the booking store                                         *)
(***************************************************************************)
IsFind == lastCall.op = "findMatch"
Found == IsFind /\ lastCall.result # NoMatch

Age(rec, t) == t - rec.createdAt

Values(m) == {m[i] : i \in DOMAIN m}

\* C7: a booking added at time T and not re-added can still be returned by findMatch
\* at T + TTL - 1 ms (a live qualifying record always yields a match), and is never
\* returned at T + TTL + 1 ms or later, TTL being 24 hours.
C7_TtlExpiry ==
    /\ [](Found => lastCall.at < lastCall.result.createdAt + 24 * 60 * 60 * 1000 + 1)
    /\ [][\A c \in LifecycleCandidates :
            (/\ findMatchCall(c)
             /\ \E i \in DOMAIN bookings :
                    /\ now <= bookings[i].createdAt + 24 * 60 * 60 * 1000 - 1
                    /\ UrlRule(bookings[i], c) \/ TimeRule(bookings[i], c))
            => lastCall'.result # NoMatch]_vars

C7_Witness ==
    /\ Found
    /\ lastCall.result.createdAt = 1
    /\ lastCall.at = 1 + TTL_MS - 1
    /\ Len(bookings) = 1

\* C8: when an addBooking or findMatch call has completed, the store holds no record
\* older than the TTL, and findMatch never returns one; between calls an expired
\* record may remain, and records leave the store only during one of these calls.
C8_SweptAfterEveryCall ==
    /\ [](lastCall.op # "none" =>
            \A i \in DOMAIN bookings : Age(bookings[i], lastCall.at) <= TTL_MS)
    /\ [](Found => Age(lastCall.result, lastCall.at) <= TTL_MS)
    /\ [][(\E d \in ClockSteps : Tick(d, MaxTicks)) => bookings' = bookings]_vars
    /\ [][bookings' # bookings =>
            /\ lastCall'.op \in {"addBooking", "findMatch"}
            /\ lastCall'.at = now
            /\ now' = now]_vars

\* An expired record is still in the store, between two calls.
C8_Witness ==
    /\ lastCall.op = "addBooking"
    /\ \E i \in DOMAIN bookings : Age(bookings[i], now) > TTL_MS
    /\ Len(bookings) = 2

Has(m, id) == id \in Keys(m)
Get(m, id) == CHOOSE rec \in Values(m) : rec.eventUuid = id

\* C9: the store holds at most one record per event identifier; a stored record
\* changes only when addBooking is called with its identifier, which replaces the
\* whole record; findMatch leaves every non-expired record in the store, unaltered
\* and in the same order, so the same candidate matches again.
C9_UniqueAndImmutable ==
    /\ [](\A i, j \in DOMAIN bookings :
            bookings[i].eventUuid = bookings[j].eventUuid => i = j)
    /\ [][\A id \in EventIds :
            (Has(bookings, id) /\ Has(bookings', id) /\ Get(bookings', id) # Get(bookings, id))
            => /\ lastCall'.op = "addBooking"
               /\ lastCall'.arg.eventUuid = id
               /\ Get(bookings', id) = Stamp(lastCall'.arg, now)]_vars
    /\ [][\A c \in LifecycleCandidates :
            findMatchCall(c) =>
                /\ SelectSeq(bookings, LAMBDA rec : Age(rec, now) <= TTL_MS) = bookings'
                /\ findMatch(bookings', c) = lastCall'.result]_vars

\* A record was replaced by a later addBooking with the same identifier, then matched.
C9_Witness ==
    /\ Found
    /\ Len(bookings) = 2
    /\ lastCall.result.eventUuid = "E1"
    /\ lastCall.result.guestName = "Bob"
    /\ lastCall.result.createdAt = TTL_MS
    /\ bookings[2].createdAt = 0

\* The condition of C10, for one record and one candidate.
UrlsAgree(rec, cand) ==
    /\ rec.meetingUrl # NoUrl
    /\ cand.meetingUrl # NoUrl
    /\ normalizeUrl(rec.meetingUrl) = normalizeUrl(cand.meetingUrl)

StartsClose(rec, cand) ==
    /\ rec.startTime >= 0
    /\ cand.startTime >= 0
    /\ rec.startTime - cand.startTime <= 15 * 60 * 1000
    /\ cand.startTime - rec.startTime <= 15 * 60 * 1000

Qualifies(rec, cand) ==
    /\ emailsAlign(rec, cand.guestEmail, cand.hostEmail)
    /\ UrlsAgree(rec, cand) \/ StartsClose(rec, cand)

\* C10: findMatch returns a record only if it is live, its emails align with the
\* candidate, and either both meeting URLs are present and normalize identically or
\* both start times are present and at most 15 minutes apart (inclusive); it returns
\* null exactly when no live record satisfies this.
C10_MatchRule ==
    IsFind =>
        /\ Found =>
            /\ lastCall.result \in Values(bookings)
            /\ Age(lastCall.result, lastCall.at) <= TTL_MS
            /\ Qualifies(lastCall.result, lastCall.arg)
        /\ ~Found <=>
            ~\E rec \in Values(bookings) :
                Age(rec, lastCall.at) <= TTL_MS /\ Qualifies(rec, lastCall.arg)

\* A match by the time rule alone, at exactly 15 minutes, after the TTL has passed once.
C10_Witness ==
    /\ Found
    /\ lastCall.arg.startTime = T0 + 15 * 60 * 1000
    /\ lastCall.arg.meetingUrl = UrlPlain
    /\ lastCall.result.meetingUrl = UrlQuery
    /\ lastCall.result.eventUuid = "E1"
    /\ lastCall.at = TTL_MS + 1
    /\ Len(bookings) = 1

\* No match although the store holds a live record.
C10_WitnessNull ==
    /\ IsFind
    /\ ~Found
    /\ Len(bookings) = 2
    /\ lastCall.arg.startTime = T0 + 15 * 60 * 1000 + 1
    /\ lastCall.arg.guestEmail = guestAUpper

\* C11: findMatch returns null for every candidate that has neither a meeting URL nor
\* a start time, whatever the store holds, also when the candidate's guest and host
\* emails are those of a stored booking.
C11_NoMatchOnEmailAlone ==
    (IsFind /\ lastCall.arg.meetingUrl = NoUrl /\ lastCall.arg.startTime = NoTime)
        => lastCall.result = NoMatch

\* Such a call, with a live stored booking that has the candidate's emails.
C11_Witness ==
    /\ IsFind
    /\ lastCall.arg = MkCandidate(NoUrl, guestAUpper, hostHUpper, NoTime)
    /\ lastCall.result = NoMatch
    /\ Len(bookings) = 2
    /\ \E i \in DOMAIN bookings :
            /\ bookings[i].guestEmail = guestA
            /\ bookings[i].hostEmail = hostH
            /\ bookings[i].meetingUrl = NoUrl
            /\ Age(bookings[i], lastCall.at) <= TTL_MS

\* Pairs of a lower-case letter and its upper-case form, for the letters of the inputs.
CasePairs ==
    {<<"a", "A">>, <<"b", "B">>, <<"g", "G">>, <<"h", "H">>, <<"x", "X">>,
     <<"m", "M">>, <<"o", "O">>, <<"p", "P">>, <<"s", "S">>, <<"t", "T">>, <<"z", "Z">>}

SameLetter(c, d) == c = d \/ <<c, d>> \in CasePairs \/ <<d, c>> \in CasePairs

\* Two strings are equal when the case of their letters is ignored.
EqIgnoreCase(s, t) ==
    Len(s) = Len(t) /\ \A i \in DOMAIN s : SameLetter(s[i], t[i])

\* The alignment of a stored record with a candidate, as the rule states it.
Aligned(rec, cand) ==
    /\ Present(rec.guestEmail) /\ Present(cand.guestEmail)
    /\ EqIgnoreCase(rec.guestEmail, cand.guestEmail)
    /\ (Present(rec.hostEmail) /\ Present(cand.hostEmail))
            => EqIgnoreCase(rec.hostEmail, cand.hostEmail)

\* C12: a stored record and a candidate have aligned emails exactly when both guest
\* emails are present and equal ignoring case and, whenever both host emails are present,
\* these are equal ignoring case as well; a missing host email never blocks a match, a
\* missing or differing guest email always does.
C12_EmailAlignment ==
    IsFind =>
        /\ \A i \in DOMAIN bookings :
                emailsAlign(bookings[i], lastCall.arg.guestEmail, lastCall.arg.hostEmail)
                    <=> Aligned(bookings[i], lastCall.arg)
        /\ Found => Aligned(lastCall.result, lastCall.arg)

\* A match whose guest emails differ in case only and whose host email is missing on the
\* candidate's side while the record has one.
C12_Witness ==
    /\ IsFind /\ Found
    /\ lastCall.result.guestEmail = guestA
    /\ lastCall.arg.guestEmail = guestAUpper
    /\ Present(lastCall.result.hostEmail)
    /\ ~Present(lastCall.arg.hostEmail)

\* A call that finds nothing because the host emails differ, although the guest emails
\* align and the URL or the start time would qualify some record.
C12_WitnessBlocked ==
    /\ IsFind /\ ~Found
    /\ \E i \in DOMAIN bookings :
            /\ Age(bookings[i], lastCall.at) <= TTL_MS
            /\ EqIgnoreCase(bookings[i].guestEmail, lastCall.arg.guestEmail)
            /\ Present(bookings[i].guestEmail)
            /\ Present(bookings[i].hostEmail) /\ Present(lastCall.arg.hostEmail)
            /\ ~EqIgnoreCase(bookings[i].hostEmail, lastCall.arg.hostEmail)
            /\ UrlsAgree(bookings[i], lastCall.arg)

\* Two URLs that parse and differ at most in their query string and fragment.
SameButQueryAndFragment(u, v) ==
    /\ Parses(u) /\ Parses(v)
    /\ u.scheme = v.scheme /\ u.host = v.host /\ u.path = v.path

\* Two URLs that parse and differ at most in their fragment and in the letter case of
\* scheme and host.
SameButFragment(u, v) ==
    /\ Parses(u) /\ Parses(v)
    /\ EqIgnoreCase(u.scheme, v.scheme) /\ EqIgnoreCase(u.host, v.host)
    /\ u.path = v.path /\ u.query = v.query

\* C13 as stated: meeting URLs that differ only in query string or fragment normalize
\* identically, so a live record and a candidate with such URLs and aligned emails
\* match, whatever their start times.
C13_Original ==
    IsFind =>
        \A i \in DOMAIN bookings :
            (/\ SameButQueryAndFragment(bookings[i].meetingUrl, lastCall.arg.meetingUrl)
             /\ Aligned(bookings[i], lastCall.arg))
                => /\ normalizeUrl(bookings[i].meetingUrl)
                        = normalizeUrl(lastCall.arg.meetingUrl)
                   /\ Found

\* C13 (amended): meeting URLs that differ only in their fragment (and the letter case of
\* scheme and host) normalize identically, and a live record then matches a candidate
\* with aligned emails whatever the start times; the query string is kept, so URLs whose
\* query strings differ normalize differently, and https://zoom.us/j/123?pwd=abc in the
\* store is returned for the candidate URL https://zoom.us/j/123 only when both start
\* times are present and at most 15 minutes apart.
C13_FragmentOnly ==
    IsFind =>
        \A i \in DOMAIN bookings :
            LET rec == bookings[i]
                cand == lastCall.arg
            IN  /\ (SameButFragment(rec.meetingUrl, cand.meetingUrl) /\ Aligned(rec, cand))
                        => /\ normalizeUrl(rec.meetingUrl) = normalizeUrl(cand.meetingUrl)
                           /\ Found
                /\ (/\ Parses(rec.meetingUrl) /\ Parses(cand.meetingUrl)
                    /\ rec.meetingUrl.query # cand.meetingUrl.query)
                        => /\ normalizeUrl(rec.meetingUrl) # normalizeUrl(cand.meetingUrl)
                           /\ lastCall.result = rec => StartsClose(rec, cand)

\* The claim's URLs with aligned emails and start times 15 minutes and 1 ms apart:
\* nothing is found.
C13_Witness ==
    /\ IsFind /\ ~Found
    /\ lastCall.arg.meetingUrl = UrlPlain
    /\ lastCall.arg.startTime = T0 + MatchWindowMs + 1
    /\ \E i \in DOMAIN bookings :
            /\ bookings[i].meetingUrl = UrlQuery
            /\ bookings[i].startTime = T0
            /\ Aligned(bookings[i], lastCall.arg)

\* URLs that differ in fragment and letter case only match without any start time.
C13_WitnessFragment ==
    /\ Found
    /\ lastCall.arg.meetingUrl = UrlUpperHash
    /\ lastCall.arg.startTime = NoTime
    /\ lastCall.result.meetingUrl = UrlQuery

\* C14: with the booking {E1, https://zoom.us/j/123?pwd=abc, a@x.com, start T0} live in
\* the store (and no booking added before it), findMatch on the candidate
\* {https://zoom.us/j/123, A@X.com, start T0 + 5 minutes} returns record E1; it
\* qualifies through the time rule (the URLs do not normalize identically), the guest
\* emails being equal only when case is ignored.
C14_NotetakerScenario ==
    (/\ IsFind
     /\ lastCall.arg = NotetakerCandidate
     /\ Len(bookings) >= 1
     /\ bookings[1].eventUuid = "E1")
        => /\ Found
           /\ lastCall.result.eventUuid = "E1"
           /\ lastCall.result.meetingUrl = UrlQuery
           /\ lastCall.result.guestEmail = guestA
           /\ lastCall.result.startTime = T0
           /\ ~UrlsAgree(lastCall.result, lastCall.arg)
           /\ StartsClose(lastCall.result, lastCall.arg)
           /\ lastCall.result.guestEmail # lastCall.arg.guestEmail
           /\ EqIgnoreCase(lastCall.result.guestEmail, lastCall.arg.guestEmail)

\* The scenario: E1 is the only booking of the store and is returned.
C14_Witness ==
    /\ IsFind
    /\ lastCall.arg = NotetakerCandidate
    /\ Len(bookings) = 1
    /\ bookings[1].eventUuid = "E1"
    /\ lastCall.result = bookings[1]

C15_WitnessUrlFirst ==
    /\ IsFind
    /\ Len(bookings) = 2
    /\ UrlsAgree(bookings[1], lastCall.arg)
    /\ ~StartsClose(bookings[1], lastCall.arg)
    /\ Aligned(bookings[1], lastCall.arg)
    /\ StartsClose(bookings[2], lastCall.arg)
    /\ ~UrlsAgree(bookings[2], lastCall.arg)
    /\ Aligned(bookings[2], lastCall.arg)
    /\ lastCall.result = bookings[1]

(***************************************************************************)
(* Properties of the pending-lead store                                    *)
(***************************************************************************)
IsGet == leadCall.op = "getPendingLead"
IsAdd == leadCall.op = "addPendingLead"
HandedOut == IsGet /\ IsLead(leadCall.result)

Entries(m) == {m[i] : i \in DOMAIN m}

\* C16: after getPendingLead returned a lead, the key is gone from the store; a call of
\* getPendingLead for a key that is not in the store returns no lead; and a key comes
\* into the store only by addPendingLead for that key. So a later getPendingLead for
\* the same normalized key returns absent until addPendingLead is called again for it,
\* and each stored lead is handed out at most once.
C16_HandedOutOnce ==
    /\ [](HandedOut => leadCall.key \notin LeadKeys(pendingLeads))
    /\ [][\A u \in RawUrls :
            (/\ leadCall'.arg = u
             /\ getPendingLead(u)
             /\ normalizeLinkedInUrl(u) \notin LeadKeys(pendingLeads))
                => ~IsLead(leadCall'.result)]_vars
    /\ [][\A k \in LeadKeys(pendingLeads') \ LeadKeys(pendingLeads) :
            leadCall'.op = "addPendingLead" /\ leadCall'.key = k]_vars

\* A lead was handed out while a lead of another profile stays in the store.
C16_Witness ==
    /\ HandedOut
    /\ Len(pendingLeads) = 1
    /\ pendingLeads[1].key # leadCall.key

C19_NoExpiry ==
    /\ [][\A e \in Entries(pendingLeads) :
            e \notin Entries(pendingLeads')
                => /\ leadCall'.op \in {"getPendingLead", "addPendingLead"}
                   /\ leadCall'.key = e.key]_vars
    /\ [](\A e \in Entries(pendingLeads) : \A u \in RawUrls :
            normalizeLinkedInUrl(u) = e.key => hasPendingLead(pendingLeads, u))
    /\ [][\A u \in RawUrls :
            (/\ leadCall'.arg = u
             /\ getPendingLead(u)
             /\ normalizeLinkedInUrl(u) \in LeadKeys(pendingLeads))
                => /\ IsLead(leadCall'.result)
                   /\ leadCall'.result = LeadMapGet(pendingLeads, normalizeLinkedInUrl(u))
          ]_vars

\* getPendingLead hands out a lead that is older than the booking store's TTL.
C19_Witness ==
    /\ HandedOut
    /\ leadCall.at - leadCall.result.addedAt > TTL_MS

\* C20: normalizeLinkedInUrl is idempotent: normalizing the (non-empty) key it returned
\* for any input gives that key again.
C20_Idempotent ==
    (leadCall.op # "none" /\ ~Falsy(leadCall.key))
        => normalizeLinkedInUrl(leadCall.key) = leadCall.key

(***************************************************************************)
(* Properties of the HeyReach and Clay handlers                            *)
(***************************************************************************)
NotesOf(tag) == {i \in DOMAIN attioNotes : attioNotes[i].tag = tag}

\* C17: across the HeyReach and the Clay handler, at most one conversation note is
\* created in the CRM for one tagged engagement, in every order and number of
\* deliveries of the two webhooks.
C17_OneNotePerEngagement ==
    \A g \in {"G1", "G2"} : Cardinality(NotesOf(g)) <= 1

\* One HeyReach delivery and one Clay delivery, both finished, and two notes for the
\* engagement: the HeyReach handler created one at once and left the lead pending, the
\* Clay handler created the other from the pending lead.
C17_NoteFromBothHandlers ==
    /\ Len(tasks) = 2
    /\ tasks[1].handler = "heyreach" /\ tasks[1].pc = "done" /\ tasks[1].noteAdded
    /\ tasks[2].handler = "clay" /\ tasks[2].pc = "done" /\ tasks[2].noteAdded
    /\ Cardinality(NotesOf("G1")) = 2

\* C21: normalizeLinkedInUrl strips the fragment as well as the query string: a profile
\* URL followed by a #fragment gets the key of the URL without it (so a lead stored
\* under one is found by getPendingLead with the other).
C21_FragmentStripped ==
    \A u \in RawUrls :
        (leadCall.op # "none" /\ leadCall.arg = u \o Fragment)
            => leadCall.key = normalizeLinkedInUrl(u)

\* getPendingLead with the #fragment URL finds nothing while the lead stored for the
\* same profile stays in the store.
C21_LeadMissed ==
    /\ IsGet
    /\ leadCall.arg = RawFragment
    /\ leadCall.result = NoLead
    /\ normalizeLinkedInUrl(RawCanonical) \in LeadKeys(pendingLeads)

\* C22: linkedin.com/in/johndoe/ and https://www.linkedin.com/in/JohnDoe?trk=x both
\* normalize to https://www.linkedin.com/in/johndoe, and getPendingLead called with the
\* first returns (and removes) the lead that addPendingLead stored under the second.
C22_VariantsShareKey ==
    /\ []((leadCall.op # "none" /\ leadCall.arg \in {RawBare, RawMixed})
            => leadCall.key = RawCanonical)
    /\ [][(/\ leadCall'.arg = RawBare
           /\ getPendingLead(RawBare)
           /\ \E e \in Entries(pendingLeads) : e.key = normalizeLinkedInUrl(RawMixed))
            => /\ IsLead(leadCall'.result)
               /\ leadCall'.result = LeadMapGet(pendingLeads, RawCanonical)
               /\ RawCanonical \notin LeadKeys(pendingLeads')]_vars

\* The lead of the second variant was handed out to a call with the first.
C22_Witness ==
    /\ HandedOut
    /\ leadCall.arg = RawBare
    /\ leadCall.result.linkedinUrl = RawCanonical
    /\ leadCall.result.conversation = "Hi John"


(***************************************************************************)
(* Properties of the webhook routes and orchestrators                      *)
(***************************************************************************)
Run(i) == runs[i]
Names(run) == {run.events[k].name : k \in DOMAIN run.events}
Count(run, name) == Cardinality({k \in DOMAIN run.events : run.events[k].name = name})
Finished(run) == run.pc = "done"

\* A valid booking delivery: invitee.created with event id and invitee email.
ValidBooking(run) ==
    /\ run.route = "calendly"
    /\ run.payload.event = "invitee.created"
    /\ run.payload.eventUuid # ""
    /\ Present(run.payload.guestEmail)

\* C23: once a valid invitee.created delivery has been handled, the booking store
\* holds a record keyed by that delivery's event id.
C23_BookingStored ==
    \A i \in DOMAIN runs :
        (ValidBooking(Run(i)) /\ Finished(Run(i)) /\ Run(i).outcome = "returned")
            => Has(bookings, Run(i).payload.eventUuid)

\* The handler has written person and note for a valid booking, and the store is empty.
C23_HandledUnstored ==
    \E i \in DOMAIN runs :
        /\ ValidBooking(Run(i)) /\ Run(i).outcome = "returned"
        /\ "createNote" \in Names(Run(i))
        /\ bookings = <<>>


NotesOfRun(i) == {k \in DOMAIN attioMeetingNotes : attioMeetingNotes[k].run = i}
PostsOfRun(i) == {k \in DOMAIN slackPosts : slackPosts[k].run = i}

\* C24: every delivery to a route is answered first, before any step of its
\* processing, with the one fixed success response; no other response is sent,
\* whatever the processing does afterwards (return or throw).
C24_AcknowledgedFirst ==
    \A i \in DOMAIN runs :
        /\ Run(i).events[1].name = "respond"
        /\ Count(Run(i), "respond") = 1
        /\ Run(i).responses = <<Acknowledgment>>

\* One delivery was processed to the end and another one threw; both got the same answer.
C24_Witness ==
    \E i, j \in DOMAIN runs :
        /\ Finished(Run(i)) /\ Run(i).outcome = "returned" /\ NotesOfRun(i) # {}
        /\ Finished(Run(j)) /\ Run(j).outcome = "threw"
        /\ Run(i).responses = Run(j).responses

\* C25: a Calendly delivery whose event is not invitee.created does nothing after the
\* acknowledgment: no wait, no transcript poll, no summary, no CRM call, no
\* notification; handleCalendlyWebhook returns without error.
C25_OtherEventsIgnored ==
    \A i \in DOMAIN runs :
        (Run(i).route = "calendly" /\ Run(i).payload.event # "invitee.created")
            => /\ Names(Run(i)) = {"respond"}
               /\ Finished(Run(i)) /\ Run(i).outcome = "returned" /\ Run(i).error = ""
               /\ NotesOfRun(i) = {} /\ PostsOfRun(i) = {}

\* An ignored delivery next to one that was processed up to the CRM.
C25_Witness ==
    \E i, j \in DOMAIN runs :
        /\ Run(i).route = "calendly" /\ Run(i).payload.event = "invitee.canceled"
        /\ Run(i).payload.eventUuid # "" /\ Finished(Run(i))
        /\ Run(j).route = "calendly" /\ NotesOfRun(j) # {}


\* A delivery to an orchestrator that lacks a required identifying field.
LacksField(run) ==
    \/ /\ run.route = "calendly"
       /\ run.payload.event = "invitee.created"
       /\ (run.payload.eventUuid = "" \/ ~Present(run.payload.guestEmail))
    \/ /\ run.route = "fathom"
       /\ ~Present(run.payload.guestEmail)

\* The calls that wait for, fetch or poll a transcript, summarise, or reach the CRM.
TranscriptCalls == {"pollForTranscript", "fetchFathomTranscript"}
WorkCalls == {"sleep", "generateSummary", "findMatch", "findPersonByEmail",
              "createPerson", "createNote"}

\* A HeyReach or Clay delivery without profile URL is answered with success: false.
TaskAborted(task) ==
    /\ task.pc = "done" /\ task.success = "false"
    /\ task.personId = NullUrl /\ ~task.noteAdded

\* C26: a delivery without its identifying field (Calendly: event id or guest email;
\* HeyReach, Clay: profile URL; Fathom: guest email) makes no transcript call, no
\* summary call, no CRM call and no store write, and no step of it runs twice.
C26_AbortedBeforeWork ==
    /\ [](\A i \in DOMAIN runs :
            LacksField(Run(i))
                => /\ Names(Run(i)) \cap (TranscriptCalls \cup WorkCalls) = {}
                   /\ NotesOfRun(i) = {}
                   /\ \A n \in Names(Run(i)) : Count(Run(i), n) = 1)
    /\ [](\A i \in DOMAIN tasks : Falsy(tasks[i].linkedinUrl) => TaskAborted(tasks[i]))
    /\ [][(/\ Len(tasks') = Len(tasks) + 1
           /\ Falsy(tasks'[Len(tasks')].linkedinUrl))
            => UNCHANGED <<pendingLeads, bookings, attioPersons, attioNotes, attioFields>>]_vars

\* A Fathom delivery without guest email whose transcript was fetched from the Fathom
\* API before the missing email was noticed.
C26_FetchedBeforeAbort ==
    \E i \in DOMAIN runs :
        /\ Run(i).route = "fathom" /\ ~Present(Run(i).payload.guestEmail)
        /\ "fetchFathomTranscript" \in Names(Run(i))
        /\ Run(i).error = "No guest email found in Fathom webhook"
        /\ Finished(Run(i))

\* Apart from that fetch, such deliveries do none of the work.
C26_AbortedButForFetch ==
    /\ \A i \in DOMAIN runs :
            LacksField(Run(i))
                => /\ Names(Run(i)) \cap ({"pollForTranscript"} \cup WorkCalls) = {}
                   /\ NotesOfRun(i) = {}
                   /\ \A n \in Names(Run(i)) : Count(Run(i), n) = 1
    /\ \A i \in DOMAIN tasks : Falsy(tasks[i].linkedinUrl) => TaskAborted(tasks[i])


CrmCalls == {"findPersonByEmail", "createPerson", "createNote"}
StepOf(run, name) == {run.events[k].step : k \in {j \in DOMAIN run.events :
                                                    run.events[j].name = name}}

\* C27: when pollForTranscript returned null, handleCalendlyWebhook stops at step
\* poll_transcript: no summary call, no CRM call, no second polling round; the error
\* goes to the catch block and is thrown to the caller.
C27_NullTranscriptAborts ==
    \A i \in DOMAIN runs :
        (Run(i).route = "calendly" /\ Run(i).transcript = "null")
            => /\ Run(i).currentStep = "poll_transcript"
               /\ Names(Run(i)) \cap ({"generateSummary"} \cup CrmCalls) = {}
               /\ Count(Run(i), "pollForTranscript") = 1
               /\ Run(i).error = "Transcript not available after maximum retries"
               /\ StepOf(Run(i), "sendSlackError") = {"poll_transcript"}
               /\ NotesOfRun(i) = {}
               /\ Run(i).pc \in {"sendSlackError", "done"}
               /\ Finished(Run(i)) => Run(i).outcome = "threw"

\* The delivery waited for the meeting to end, polled, got null and threw.
C27_Witness ==
    \E i \in DOMAIN runs :
        /\ Run(i).route = "calendly" /\ Run(i).transcript = "null"
        /\ "sleep" \in Names(Run(i))
        /\ Finished(Run(i)) /\ Run(i).outcome = "threw"
        /\ PostsOfRun(i) # {}


\* The step during which each error arises.
StepOfError(error) ==
    CASE error \in {"Missing required fields: eventUuid or guestEmail",
                    "Invalid Fathom webhook signature"} -> "parse_payload"
      [] error = "Transcript not available after maximum retries" -> "poll_transcript"
      [] error \in {"Fathom API error", "No transcript available from Fathom",
                    "No guest email found in Fathom webhook"} -> "process_fathom"
      [] error = "OpenAI API error" -> "generate_summary"
      [] OTHER -> "attio_upsert"

Failed(run) == run.error # ""

\* C28: when a step of handleCalendlyWebhook or handleFathomWebhook fails,
\* sendSlackError is called once, with the step that was in progress; what it posts
\* names that step and that error; whether or not the post worked, the orchestrator
\* then throws the error it caught; no step of the delivery runs a second time.
C28_NotifiedOnceAndRethrown ==
    \A i \in DOMAIN runs :
        Failed(Run(i))
            => /\ Count(Run(i), "sendSlackError") = 1
               /\ StepOf(Run(i), "sendSlackError") = {StepOfError(Run(i).error)}
               /\ Run(i).events[Len(Run(i).events)].name = "sendSlackError"
               /\ \A n \in Names(Run(i)) : Count(Run(i), n) = 1
               /\ Cardinality(PostsOfRun(i)) <= 1
               /\ \A k \in PostsOfRun(i) :
                        /\ slackPosts[k].step = StepOfError(Run(i).error)
                        /\ slackPosts[k].error = Run(i).error
               /\ Finished(Run(i))
                    => /\ Run(i).outcome = "threw"
                       /\ Run(i).thrown = Run(i).error
                       /\ (Run(i).slack = "posted") = (PostsOfRun(i) # {})

\* The CRM upsert of a Fathom delivery failed, the Slack post failed as well, and the
\* CRM error was thrown; another delivery failed while polling and was posted.
C28_Witness ==
    \E i, j \in DOMAIN runs :
        /\ Run(i).route = "fathom" /\ Run(i).error = "Attio create note error"
        /\ Run(i).slack = "postFailed" /\ Run(i).thrown = "Attio create note error"
        /\ Run(j).route = "calendly" /\ Run(j).currentStep = "poll_transcript"
        /\ PostsOfRun(j) # {}


AttioErrors == {"Attio search error", "Attio create person error",
                "Attio create note error"}

\* C30: when findMatch gives handleFathomWebhook no booking, the handler goes on to
\* the CRM upsert for the guest; no error comes from the missing match, and when the
\* CRM calls succeed the handler returns after one note for the guest's person that
\* says no Calendly match was found.
C30_NoMatchStillUpserts ==
    \A i \in DOMAIN runs :
        (/\ Run(i).route = "fathom"
         /\ "findMatch" \in Names(Run(i))
         /\ Run(i).matched = NoMatch)
            => /\ Run(i).currentStep = "attio_upsert"
               /\ "findPersonByEmail" \in Names(Run(i))
               /\ Failed(Run(i)) => Run(i).error \in AttioErrors
               /\ (Finished(Run(i)) /\ ~Failed(Run(i)))
                    => /\ Run(i).outcome = "returned"
                       /\ Cardinality(NotesOfRun(i)) = 1
                       /\ \A k \in NotesOfRun(i) :
                            /\ attioMeetingNotes[k].correlationNote
                                    = "No Calendly match found"
                            /\ attioPeople[attioMeetingNotes[k].personId]
                                    = Run(i).payload.guestEmail

\* A Fathom delivery was handled to the end without a match, creating the person,
\* while the booking store holds a booking.
C30_Witness ==
    \E i \in DOMAIN runs :
        /\ Run(i).route = "fathom" /\ Run(i).matched = NoMatch
        /\ Finished(Run(i)) /\ Run(i).outcome = "returned"
        /\ "createPerson" \in Names(Run(i))
        /\ NotesOfRun(i) # {}
        /\ bookings # <<>>

(***************************************************************************)
(* Properties of the HeyReach and Clay handlers: failures of the note      *)
(***************************************************************************)
\* C29: when createConversationNote fails after the primary operation went through
\* (Clay: the patch of the person's fields; HeyReach: the lead put in the pending-lead
\* store), the handler finishes with success: true instead of throwing, and what the
\* primary operation wrote is still there.
C29_NoteFailureTolerated ==
    [][\A i \in 1..MaxDeliveries :
        /\ (/\ ClayNoteReturn(i, "error")
            /\ tasks[i].personId \in attioFields)
                => /\ tasks'[i].pc = "done" /\ tasks'[i].success = "true"
                   /\ tasks[i].personId \in attioFields'
                   /\ attioPersons' = attioPersons
        /\ HeyReachNoteReturn(i, "error")
                => /\ tasks'[i].pc = "done" /\ tasks'[i].success = "true"
                   /\ pendingLeads' = pendingLeads]_vars

\* Both handlers have finished with success although the note of each failed: no note
\* exists, the person's fields are patched, and the HeyReach lead went to the store,
\* from where the Clay handler took it.
C29_Witness ==
    \E i, j \in DOMAIN tasks :
        /\ tasks[i].handler = "heyreach" /\ tasks[i].pc = "done"
        /\ tasks[i].success = "true" /\ tasks[i].personId # NullUrl
        /\ tasks[j].handler = "clay" /\ tasks[j].pc = "done"
        /\ tasks[j].success = "true" /\ HasConversation(tasks[j].lead)
        /\ tasks[j].personId \in attioFields
        /\ attioNotes = <<>>

(***************************************************************************)
(* Properties of handleClayWebhook                                         *)
(***************************************************************************)
\* A Clay delivery that got nothing from getPendingLead and has returned.
FoundNoLead(task) ==
    /\ task.handler = "clay" /\ task.pc = "done"
    /\ task.personId # NullUrl /\ ~IsLead(task.lead)

\* C31: a Clay delivery handled while no lead is pending for its profile URL patches
\* the person's fields, creates no note, touches no lead, and returns success with
\* noteAdded = false; a HeyReach delivery for the profile handled later puts its lead
\* into the store, where it stays pending.
C31_ClayWithoutLead ==
    /\ [][\A i \in 1..MaxDeliveries, o \in ApiOutcomes :
            (/\ ClayUpdateReturn(i, o)
             /\ ~hasPendingLead(pendingLeads, tasks[i].linkedinUrl))
                => /\ tasks'[i].pc = "done" /\ tasks'[i].success = "true"
                   /\ ~tasks'[i].noteAdded
                   /\ o = "ok" => tasks[i].personId \in attioFields'
                   /\ attioNotes' = attioNotes
                   /\ pendingLeads' = pendingLeads]_vars
    /\ [][\A p \in HeyReachPayloads :
            (/\ handleHeyReachWebhook(p, MaxDeliveries)
             /\ \E i \in DOMAIN tasks :
                    /\ FoundNoLead(tasks[i])
                    /\ tasks[i].linkedinUrl = extractLeadData(p).linkedinUrl)
                => hasPendingLead(pendingLeads', p.linkedinUrl)]_vars

\* The Clay delivery came first and found no lead; the HeyReach delivery that followed
\* has its lead in the store.
C31_Witness ==
    \E i, j \in DOMAIN tasks :
        /\ i < j
        /\ FoundNoLead(tasks[i]) /\ tasks[i].success = "true" /\ ~tasks[i].noteAdded
        /\ tasks[i].personId \in attioFields
        /\ tasks[j].handler = "heyreach" /\ tasks[j].pc = "done"
        /\ tasks[j].linkedinUrl = tasks[i].linkedinUrl
        /\ hasPendingLead(pendingLeads, tasks[j].linkedinUrl)
        /\ attioNotes = <<>>

\* The Clay deliveries that obtained a lead from getPendingLead, and the HeyReach
\* deliveries that put one into the store.
Obtained == {i \in DOMAIN tasks : tasks[i].handler = "clay" /\ IsLead(tasks[i].lead)}
Stored == {i \in DOMAIN tasks : tasks[i].handler = "heyreach"
                                 /\ ~Falsy(tasks[i].linkedinUrl)}

\* C32: however the Clay deliveries for one profile URL are interleaved, each lead
\* that was stored is obtained by at most one of them: the leads obtained and the
\* leads still pending are never more than the leads that were stored, and the step
\* in which a delivery obtains a lead is the step that takes it out of the store.
C32_LeadObtainedOnce ==
    /\ [](Cardinality(Obtained) + Len(pendingLeads) <= Cardinality(Stored))
    /\ [][\A i \in 1..MaxDeliveries, o \in ApiOutcomes :
            (ClayUpdateReturn(i, o) /\ IsLead(tasks'[i].lead))
                => /\ hasPendingLead(pendingLeads, tasks[i].linkedinUrl)
                   /\ ~hasPendingLead(pendingLeads', tasks[i].linkedinUrl)]_vars

\* Two Clay deliveries for the same profile were both past the person search when
\* the lead was there; one obtained it, the other found none.
C32_Witness ==
    \E i, j \in DOMAIN tasks :
        /\ i # j
        /\ tasks[i].handler = "clay" /\ tasks[j].handler = "clay"
        /\ tasks[i].linkedinUrl = tasks[j].linkedinUrl
        /\ i \in Obtained /\ tasks[i].pc = "done"
        /\ FoundNoLead(tasks[j])
        /\ Cardinality(Stored) = 1
        /\ pendingLeads = <<>>

\* C35: a Clay delivery reports noteAdded = true only when it created the
\* conversation note in Attio: the step that turns noteAdded true appends the note.
C35_NoteAddedMeansCreated ==
    [][\A i \in DOMAIN tasks :
        (/\ tasks[i].handler = "clay"
         /\ ~tasks[i].noteAdded
         /\ tasks'[i].noteAdded)
            => attioNotes' = createConversationNote(attioNotes, tasks[i].personId,
                                                    tasks[i].lead)]_vars

\* A Clay delivery has returned noteAdded = true and Attio has no note at all.
C35_ReportedButNotCreated ==
    \E i \in DOMAIN tasks :
        /\ tasks[i].handler = "clay" /\ tasks[i].pc = "done"
        /\ tasks[i].success = "true" /\ tasks[i].noteAdded
        /\ attioNotes = <<>>

\* C36: handleClayWebhook takes the pending lead of a profile out of the store only
\* once a person was found for it: a delivery without URL, with a failed person search
\* or without person leaves the store as it is; after a person was found the lead is
\* taken out when updatePersonFields has settled, and a note failure does not put it
\* back.
C36_LeadRemovedOnlyWithPerson ==
    /\ [][\A i \in 1..MaxDeliveries :
            /\ (\E p \in ClayPayloads : handleClayWebhook(p, MaxDeliveries))
                    => pendingLeads' = pendingLeads
            /\ (\E o \in ApiOutcomes : ClayFindReturn(i, o))
                    => pendingLeads' = pendingLeads
            /\ (\E o \in ApiOutcomes : ClayUpdateReturn(i, o))
                    => /\ tasks[i].personId \in attioPersons
                       /\ ~hasPendingLead(pendingLeads', tasks[i].linkedinUrl)
            /\ (\E o \in ApiOutcomes : ClayNoteReturn(i, o))
                    => pendingLeads' = pendingLeads]_vars
    /\ [](\A i \in DOMAIN tasks :
            (tasks[i].handler = "clay" /\ tasks[i].personId = NullUrl)
                => tasks[i].lead = NoLead)

\* A Clay delivery found no person for the profile and took no lead; another one
\* found the person, took the lead and failed to write the note: the store is empty
\* and Attio has no note.
C36_Witness ==
    \E i, j \in DOMAIN tasks :
        /\ tasks[i].handler = "clay" /\ tasks[i].pc = "done"
        /\ tasks[i].success = "false" /\ ~Falsy(tasks[i].linkedinUrl)
        /\ tasks[i].lead = NoLead
        /\ tasks[j].handler = "clay" /\ tasks[j].pc = "done"
        /\ HasConversation(tasks[j].lead)
        /\ Cardinality(Stored) = 1
        /\ attioNotes = <<>> /\ pendingLeads = <<>>

(***************************************************************************)
(* Properties of updatePersonFields                                        *)
(***************************************************************************)
PatchesOf(call, field, settled) ==
    {n \in DOMAIN call.patches : /\ call.patches[n].field = field
                                 /\ call.patches[n].outcome \in settled}

\* C33: updatePersonFields never throws; when the email patch fails, with a
\* uniqueness conflict or any other error, a usable phone is still patched; and
\* emailUpdated and phoneUpdated are true only when the patch of that field succeeded.
C33_PatchesIndependent ==
    \A k \in DOMAIN updates :
        LET call == updates[k]
        IN  /\ call.pc \in {"patchEmail", "patchPhone", "done"}
            /\ call.results.emailUpdated => PatchesOf(call, "email", {"ok"}) # {}
            /\ call.results.phoneUpdated => PatchesOf(call, "phone", {"ok"}) # {}
            /\ (/\ PatchesOf(call, "email", {"uniqueness_conflict", "error"}) # {}
                /\ call.fields.phone = PhoneSeven)
                    => \/ call.pc = "patchPhone"
                       \/ call.pc = "done" /\ PatchesOf(call, "phone", PatchOutcomes) # {}

\* One call whose email patch hit a uniqueness conflict and one whose email patch
\* failed otherwise; in both the phone was patched.
C33_Witness ==
    \E k, l \in DOMAIN updates :
        /\ PatchesOf(updates[k], "email", {"uniqueness_conflict"}) # {}
        /\ PatchesOf(updates[l], "email", {"error"}) # {}
        /\ \A n \in {k, l} :
                /\ updates[n].pc = "done"
                /\ updates[n].results = [emailUpdated |-> FALSE, phoneUpdated |-> TRUE]

(***************************************************************************)
(* Properties of handleFathomWebhook                                       *)
(***************************************************************************)
\* The meeting every Fathom delivery of WebhookSpec reports in its payload: the URL
\* of WebhookBooking without the query string, five minutes after its start.
FathomMeeting == [meetingUrl |-> UrlPlain, hostEmail |-> NoString,
                  startTime |-> T0 + 5 * 60 * 1000]

ReportedCandidate(run) ==
    MkCandidate(FathomMeeting.meetingUrl, run.payload.guestEmail,
                FathomMeeting.hostEmail, FathomMeeting.startTime)

QualifyingIds(run) ==
    {rec.eventUuid : rec \in {r \in Values(cleanup(bookings, now)) :
                                    Qualifies(r, ReportedCandidate(run))}}

\* C34: when handleFathomWebhook reaches findMatch while the store holds a live
\* booking that qualifies for the reported meeting (same guest email, and the same
\* meeting URL or a start within 15 minutes), the match is that booking, and the note
\* written afterwards names its event id.
C34_NoteNamesBooking ==
    /\ [][\A i \in 1..MaxWebhooks :
            (FathomSummaryReturn(i, "ok") /\ QualifyingIds(Run(i)) # {})
                => runs'[i].matched.eventUuid \in QualifyingIds(Run(i))]_vars
    /\ [](\A k \in DOMAIN attioMeetingNotes :
            LET run == Run(attioMeetingNotes[k].run)
            IN  (run.route = "fathom" /\ run.matched # NoMatch)
                    => attioMeetingNotes[k].correlationNote = run.matched.eventUuid)

\* findMatch has just returned null to a Fathom delivery for guest a@x while the
\* booking E1 of a@x, for the same meeting, was in the store.
C34_MatchMissed ==
    /\ lastCall.op = "findMatch" /\ lastCall.result = NoMatch
    /\ lastCall.arg.guestEmail = guestA
    /\ lastCall.arg.meetingUrl = NoUrl /\ lastCall.arg.startTime = NoTime
    /\ \E rec \in Values(bookings) :
            rec.eventUuid = "E1" /\ Qualifies(rec, MkCandidate(FathomMeeting.meetingUrl,
                                        guestA, NoString, FathomMeeting.startTime))

\* C37: on an account with a webhook secret, only a delivery with a valid signature
\* gets as far as transcript processing, summary and CRM upsert; a delivery whose
\* signature is missing or invalid writes nothing to the CRM.
C37_OnlySignedDeliveries ==
    \A i \in DOMAIN runs :
        (/\ Run(i).route = "fathom"
         /\ Run(i).payload.webhookSecret
         /\ Run(i).payload.signature # "valid")
            => /\ Names(Run(i)) \cap ({"processFathomWebhook", "fetchFathomTranscript",
                                       "generateSummary"} \cup CrmCalls) = {}
               /\ NotesOfRun(i) = {}

\* A delivery without signature header to an account with a secret was summarised
\* and written to the CRM.
C37_UnsignedWritten ==
    \E i \in DOMAIN runs :
        /\ Run(i).route = "fathom" /\ Run(i).payload.webhookSecret
        /\ Run(i).payload.signature = ""
        /\ Finished(Run(i)) /\ Run(i).outcome = "returned"
        /\ NotesOfRun(i) # {}

\* A delivery with an invalid signature is stopped at parse_payload.
C37_InvalidRejected ==
    \A i \in DOMAIN runs :
        (/\ Run(i).route = "fathom"
         /\ Run(i).payload.webhookSecret
         /\ Run(i).payload.signature = "invalid")
            => /\ Names(Run(i)) = {"respond", "sendSlackError"}
               /\ Run(i).error = "Invalid Fathom webhook signature"

(***************************************************************************)
(* Properties of handleCalendlyWebhook                                     *)
(***************************************************************************)
Positions(run, name) == {k \in DOMAIN run.events : run.events[k].name = name}

\* name happened in the run, and call, if it happened, happened later.
Precedes(run, name, call) ==
    /\ Positions(run, name) # {}
    /\ \A k \in Positions(run, name), l \in Positions(run, call) : k < l

Happened(run, name) == Positions(run, name) # {}

\* C38: in one Calendly delivery every step happens at most once and in order:
\* pollForTranscript is called after the wait for the meeting, where one is needed,
\* has settled; generateSummary only after pollForTranscript returned a transcript;
\* the CRM upsert only after generateSummary returned a summary; a delivery that
\* failed before the upsert makes no CRM call and writes nothing to the CRM.
C38_StepsInOrder ==
    \A i \in DOMAIN runs :
        LET run == Run(i)
        IN  run.route = "calendly"
                => /\ \A n \in Names(run) : Count(run, n) = 1
                   /\ (Happened(run, "pollForTranscript") /\ run.payload.endTime > run.startedAt)
                        => /\ Precedes(run, "sleep", "pollForTranscript")
                           /\ run.polledAt >= run.payload.endTime
                   /\ Happened(run, "generateSummary")
                        => /\ Precedes(run, "pollForTranscript", "generateSummary")
                           /\ run.transcript = "transcript"
                   /\ Happened(run, "findPersonByEmail")
                        => /\ Precedes(run, "generateSummary", "findPersonByEmail")
                           /\ run.summary = "ok"
                   /\ \A c \in {"createPerson", "createNote"} :
                        Happened(run, c) => Precedes(run, "findPersonByEmail", c)
                   /\ (Failed(run) /\ run.error \notin AttioErrors)
                        => /\ Names(run) \cap CrmCalls = {}
                           /\ NotesOfRun(i) = {}

\* A delivery went through all steps, wait included, and wrote its note; another one
\* failed at the summary and made no CRM call.
C38_Witness ==
    \E i, j \in DOMAIN runs :
        /\ Run(i).route = "calendly" /\ Finished(Run(i)) /\ Run(i).outcome = "returned"
        /\ Names(Run(i)) = {"respond", "sleep", "pollForTranscript", "generateSummary",
                            "findPersonByEmail", "createPerson", "createNote"}
        /\ NotesOfRun(i) # {}
        /\ Run(j).route = "calendly" /\ Run(j).summary = "error" /\ Finished(Run(j))

PeopleWith(email) == {k \in DOMAIN attioPeople : attioPeople[k] = email}

\* C40: however the lookups and creates of two deliveries for one guest email are
\* interleaved, Attio ends up with at most one person for that email.
C40_OnePersonPerEmail ==
    \A i \in DOMAIN runs : Cardinality(PeopleWith(Run(i).payload.guestEmail)) <= 1

\* Both deliveries looked the email up before either had created the person, and both
\* sent the create.
C40_BothCreate ==
    \E i, j \in DOMAIN runs :
        /\ i # j
        /\ Run(i).payload.guestEmail = Run(j).payload.guestEmail
        /\ Happened(Run(i), "createPerson") /\ Happened(Run(j), "createPerson")

\* Attio accepted both creates: two persons with the same email, one note on each.
C40_DuplicatePerson ==
    \E i, j \in DOMAIN runs :
        /\ i # j
        /\ Run(i).route = "calendly" /\ Run(j).route = "fathom"
        /\ Finished(Run(i)) /\ Finished(Run(j))
        /\ NotesOfRun(i) # {} /\ NotesOfRun(j) # {}
        /\ Run(i).personId # Run(j).personId
        /\ {Run(i).personId, Run(j).personId} \subseteq DOMAIN attioPeople
        /\ attioPeople[Run(i).personId] = attioPeople[Run(j).personId]

====
